---------------------------- MODULE Spec2Model ----------------------------
(***************************************************************************)
(* A model of the aluminum peer-to-peer chat: the rendezvous relay         *)
(* (p2p-relay/src/main.rs), the Noise record codecs                        *)
(* (libchatty/src/noise_codec.rs) and the Noise protocol-name composition  *)
(* (libchatty/src/noise_session.rs).                                       *)
(*                                                                         *)
(* The specifications share the module's variables; each one drives its    *)
(* own group of variables and leaves the others untouched:                 *)
(*   SpecRelay  the relay's accept loop and per-connection session tasks   *)
(*   SpecCodec  the chunked Noise codec over a segmented byte stream       *)
(*   SpecForge  the codecs with, in addition, a frame forged on the network *)
(*   SpecNames  NoiseBuilder's protocol-name composition                   *)
(*   SpecFile   a file offered, requested and streamed between two peer    *)
(*              sessions (p2p-chat/src/peermanager.rs)                     *)
(*   SpecPeer   two peer sessions, Initiator and Responder, from the hole  *)
(*              punch to READY, with their retry supervisors               *)
(*   SpecPeerFair  the same sessions on a loss-free network, with fairness *)
(*   SpecConn   the client's connection manager and its relay session      *)
(*              (p2p-chat/src/connmanager.rs)                              *)
(*   SpecLocks  the relay's tasks at the grain of their mutex guards and   *)
(*              await points                                               *)
(*   SpecActors the client's controller, peer session and event manager    *)
(*              over their bounded channels                                *)
(*   SpecEndpoint  the peer sessions of one client accepting on the        *)
(*              client's one QUIC endpoint                                 *)
(*   SpecInvite the controller's file invites and the requests they        *)
(*              trigger                                                    *)
(***************************************************************************)
EXTENDS Integers, Sequences, FiniteSets, TLC

VARIABLES
    \* ---- relay (p2p-relay/src/main.rs) ----
    pc,          \* per connection: position of its session task
    clientId,    \* per connection: the Ed25519 identity the client holds
    hsStatic,    \* per connection: X25519 static key seen in the handshake
    clientOpen,  \* per connection: the client's side of the stream is open
    inbox,       \* per connection: requests in flight to the relay
    outbox,      \* per connection: responses in flight to the client
    conn_db,     \* ConnectionDb: HashMap<VerifyingKey, SocketAddr>
    notify_db,   \* NotifyDb: HashMap<SocketAddr, mpsc::Sender<Notify>>
    notify_rx,   \* per connection: content of its notification channel
    joinSt,      \* per connection: progress of the GetUser handler's join!
    regHist,     \* history: per key, the connections whose Register(key)
                 \* was handled last and second to last
    nSent,       \* number of requests clients have sent so far
    nGetUser,    \* number of GetUser requests the relay has taken up
    \* ---- codec (libchatty/src/noise_codec.rs) ----
    txN,         \* sending TransportState: nonce of the next record
    rxN,         \* receiving TransportState: nonce of the next record
    encSt,       \* the encoding task: "ok" or "panicked"
    decSt,       \* the decoding task: "ok" or "panicked"
    sent,        \* history: the payloads encoded so far, as byte strings
    wire,        \* the byte stream written by the encoder, as items
    arrived,     \* number of bytes of the stream the receiver has read
    rdIdx,       \* index of the first item the decoder has not consumed
    frState,     \* NoiseCodec.framing's DecodeState: Head or Data(n)
    readable,    \* Framed's is_readable: decode is to be called again
    decRes,      \* what the last call of decode returned
    decoded,     \* the payloads the decoder has yielded, as byte strings
    layer,       \* the codec that faces the stream
    \* noise_session.rs
    builder,     \* the NoiseBuilder of each side of a handshake
    protocol,    \* the protocol name each side has built with, if any
    \* ---- file transfer (p2p-chat/src/peermanager.rs) ----
    hFile,       \* the holder's file on disk, as bytes
    sent_invite, \* holder: PeerManager.sent_invite
    recv_invite, \* receiver: PeerManager.recv_invite
    h2r,         \* plaintext bytes in flight from holder to receiver
    r2h,         \* packets in flight from receiver to holder
    hpc,         \* the holder's session task
    rpc,         \* the receiver's session task
    taken,       \* receiver: bytes the Take reader has yielded so far
    rFile,       \* the receiver's download on disk, if created
    ui,          \* ConnMessages the receiver has sent towards the UI
    upl,         \* history: per upload, the size announced and the
                 \* number of bytes written
    nFileOps,    \* number of commands and file changes so far
    \* ---- peer sessions (p2p-chat/src/peermanager.rs) ----
    sess,        \* per role: position of the session's supervisor task
    attempt,     \* per role: number of calls of run() so far
    incoming,    \* per role: result of accept_peer() in the join!
    outgoing,    \* per role: result of connect_to_peer() in the join!
    offered,     \* QUIC connections begun and not yet accepted
    alive,       \* QUIC connections established and not closed
    streamOn,    \* per role: the connection whose stream the session uses
    opened,      \* connections on which a stream was opened and written
    net,         \* per connection and receiving role: items in flight
    hsStep,      \* per role: handshake messages written or read
    txNonce,     \* per role: nonce of the next record sent
    rxNonce,     \* per role: nonce of the next record expected
    nextDisabled, \* per role: select! has disabled the conn.next() arm
    cmds,        \* per role: content of the command channel rx
    nCmds,       \* number of Send commands submitted so far
    sentLog,     \* history: per role, the Sends transmitted, in order
    delivered,   \* history: per role, the Sends passed to the inbound
                 \* channel, in order
    cancelled,   \* per role: the client's CancellationToken is cancelled
    late,        \* history: the Sends submitted while both sessions
                 \* were READY
    ignored,     \* history: the incoming connections accept_peer has
                 \* ignored
    \* ---- connection manager (p2p-chat/src/connmanager.rs) ----
    cm,          \* position of the connection manager's task
    relayUp,     \* the relay is reachable and the connection to it holds
    cmRx,        \* content of the instruction channel rx
    cmOut,       \* history: the requests sent to the relay, in order
    cmIn,        \* relay messages in flight to the client
    cmGot,       \* history: the relay messages the client has taken
    cmPeers,     \* the peer sessions the connection manager has created
    cmStatus,    \* history: the messages passed to the sender channel
    cmCancelled, \* the client's CancellationToken is cancelled
    rxDisabled,  \* select! has disabled the rx.recv() arm
    nInstr,      \* number of instructions submitted so far
    \* ---- the relay's mutexes (p2p-relay/src/main.rs) ----
    lkMode,      \* per task: unspawned, running, suspended at an .await,
                 \* waiting in select!, done or panicked
    lkCode,      \* per task: the steps of the loop turn or select! arm the
                 \* task is in
    lkIp,        \* per task: index of its next step
    lkOwner,     \* per mutex: the task that holds its guard, if any
    lkPoisoned,  \* the mutexes a panic has poisoned
    lkOps,       \* per task: map operations since it last took a guard
    lkSpawned,   \* number of session tasks the accept loop has spawned
    \* ---- the client's actors (controller.rs, eventmanager.rs,
    \*      peermanager.rs) ----
    chCmd,       \* content of the peer session's command channel
    chMsg,       \* content of the ConnMessage channel
    chEvt,       \* content of the AppEvent channel
    acCtl,       \* the command the controller is sending, if any
    acPeer,      \* the ConnMessage the peer session is sending, if any
    acEvm,       \* the AppEvent the event manager is sending, if any
    acSess,      \* the peer session: connecting, or in its loop
    \* ---- peer sessions on one endpoint (peermanager.rs) ----
    epQueue,     \* the incoming connections waiting at the endpoint, by
                 \* the peer they come from
    epSess,      \* per local session, named by its peer: idle, punching
                 \* or accepted
    epIgnored,   \* history: pairs of a session and the peer whose
                 \* connection it has ignored
    epArrivals,  \* number of incoming connections so far
    \* ---- the controller's file invites (controller.rs, friendsview.rs) ----
    selected_user,     \* FriendsView::selected_user
    pending_download,  \* AppController::pending_download, with the author
                       \* of the message that carried the invite
    file_requests      \* history: the GetFile commands sent, each with the
                       \* friend it went to and the author of the invite

relayVars == <<pc, clientId, hsStatic, clientOpen, inbox, outbox, conn_db,
               notify_db, notify_rx, joinSt, regHist, nSent, nGetUser>>

codecVars == <<txN, rxN, encSt, decSt, sent, wire, arrived, rdIdx, frState,
               readable, decRes, decoded, layer>>

namesVars == <<builder, protocol>>
fileVars == <<hFile, sent_invite, recv_invite, h2r, r2h, hpc, rpc, taken,
              rFile, ui, upl, nFileOps>>

peerVars == <<sess, attempt, incoming, outgoing, offered, alive, streamOn,
              opened, net, hsStep, txNonce, rxNonce, nextDisabled, cmds,
              nCmds, sentLog, delivered, cancelled, late, ignored>>

connVars == <<cm, relayUp, cmRx, cmOut, cmIn, cmGot, cmPeers, cmStatus,
              cmCancelled, rxDisabled, nInstr>>

lockVars == <<lkMode, lkCode, lkIp, lkOwner, lkPoisoned, lkOps, lkSpawned>>

actorVars == <<chCmd, chMsg, chEvt, acCtl, acPeer, acEvm, acSess>>

endpointVars == <<epQueue, epSess, epIgnored, epArrivals>>

inviteVars == <<selected_user, pending_download, file_requests>>

vars == <<relayVars, codecVars, namesVars, fileVars, peerVars, connVars,
          lockVars, actorVars, endpointVars, inviteVars>>

exceptRelay == <<codecVars, namesVars, fileVars, peerVars, connVars,
                 lockVars, actorVars,
                 endpointVars,
                 inviteVars>>
exceptCodec == <<relayVars, namesVars, fileVars, peerVars, connVars,
                 lockVars, actorVars,
                 endpointVars,
                 inviteVars>>
exceptNames == <<relayVars, codecVars, fileVars, peerVars, connVars,
                 lockVars, actorVars,
                 endpointVars,
                 inviteVars>>
exceptFile == <<relayVars, codecVars, namesVars, peerVars, connVars,
                lockVars, actorVars,
                endpointVars,
                inviteVars>>
exceptPeer == <<relayVars, codecVars, namesVars, fileVars, connVars,
                lockVars, actorVars,
                endpointVars,
                inviteVars>>
exceptConn == <<relayVars, codecVars, namesVars, fileVars, peerVars,
                lockVars, actorVars,
                endpointVars,
                inviteVars>>
exceptLocks == <<relayVars, codecVars, namesVars, fileVars, peerVars,
                 connVars, actorVars,
                 endpointVars,
                 inviteVars>>
exceptActors == <<relayVars, codecVars, namesVars, fileVars, peerVars,
                  connVars, lockVars, endpointVars,
                  inviteVars>>
exceptEndpoint == <<relayVars, codecVars, namesVars, fileVars, peerVars,
                    connVars, lockVars, actorVars, inviteVars>>
exceptInvite == <<relayVars, codecVars, namesVars, fileVars, peerVars,
                  connVars, lockVars, actorVars, endpointVars>>

----------------------------------------------------------------------------
(* Bounds of the model *)

NConns == 2
NKeys == 3
MaxSends == 4
MaxInbox == 1

\* the capacity of a connection's notification channel: mpsc::channel(32)
\* in the code, a channel of one place in the model, which the requests
\* within MaxSends can fill
NotifyCapacity == 1

Conns == 1..NConns

----------------------------------------------------------------------------
(* Identities and their conversion to Noise static keys.                   *)
(* An Ed25519 verifying key is a compressed Edwards point; it is modelled  *)
(* by its y coordinate in a small prime field standing in for              *)
(* GF(2^255 - 19).                                                         *)

FieldP == (2 ^ 4) - 3

Keys == 2..(NKeys + 1)

RECURSIVE PowMod(_, _)
PowMod(a, e) == IF e = 0 THEN 1 ELSE (a * PowMod(a, e - 1)) % FieldP

InvMod(a) == PowMod(a % FieldP, FieldP - 2)

\* VerifyingKey::to_montgomery: u = (1 + y) / (1 - y)
ed25519_verifying_to_x25519(key) ==
    ((1 + key) * InvMod(FieldP + 1 - key)) % FieldP

----------------------------------------------------------------------------
(* Values *)

Last(q) == q[Len(q)]

\* Option<T>: None is the empty sequence, Some(x) the one-element sequence
None == <<>>
Some(x) == <<x>>

\* conn.remote_address(): every connection has its own remote endpoint
Addr(c) == <<"addr", c>>
Addrs == {Addr(c) : c \in Conns}

\* RelayRequest
Register(k) == [type |-> "Register", key |-> k]
GetUser(k) == [type |-> "GetUser", key |-> k]
ReqAck == [type |-> "Ack"]
Bye == [type |-> "Bye"]
RelayRequest ==
    {Register(k) : k \in Keys} \cup {GetUser(k) : k \in Keys} \cup {ReqAck, Bye}

\* RelayResponse; rid (the GetUser that caused the response, numbered in
\* the order the relay took them up) is history and not on the wire
UserAddress(a, rid) == [type |-> "UserAddress", addr |-> a, rid |-> rid]
AwaitConnection(k, a, rid) ==
    [type |-> "AwaitConnection", key |-> k, addr |-> a, rid |-> rid]
Ack == [type |-> "Ack"]

\* Notify::Call(addr)
Call(a, rid) == [addr |-> a, rid |-> rid]

----------------------------------------------------------------------------
(* HashMap operations on a map held as a set of <<key, value>> pairs *)

HashMapInsertKeep(m, k, v) ==
    IF \E p \in m : p[1] = k THEN m ELSE m \cup {<<k, v>>}

\* HashMap::insert: replaces the value of an existing key
HashMapInsert(m, k, v) == {p \in m : p[1] # k} \cup {<<k, v>>}

\* HashMap::get
HashMapGet(m, k) ==
    IF \E p \in m : p[1] = k
    THEN Some((CHOOSE p \in m : p[1] = k)[2])
    ELSE None

----------------------------------------------------------------------------
(* The relay *)

Terminated(c) == pc[c] \in {"closed", "failed", "panicked"}

\* tx.send(..) on the session's stream: the response is put in flight to a
\* client whose stream is open, and fails otherwise
TxSend(c, msg) ==
    IF clientOpen[c] THEN [outbox EXCEPT ![c] = Append(@, msg)] ELSE outbox

\* the session task returns: its notify_rx is dropped with what it holds
DropRx(c) == [notify_rx EXCEPT ![c] = <<>>]

InitRelay ==
    /\ pc = [c \in Conns |-> "none"]
    /\ clientId = [c \in Conns |-> 0]
    /\ hsStatic = [c \in Conns |-> 0]
    /\ clientOpen = [c \in Conns |-> FALSE]
    /\ inbox = [c \in Conns |-> <<>>]
    /\ outbox = [c \in Conns |-> <<>>]
    /\ conn_db = {}
    /\ notify_db = {}
    /\ notify_rx = [c \in Conns |-> <<>>]
    /\ joinSt = [c \in Conns |-> None]
    /\ regHist = [k \in Keys |-> <<>>]
    /\ nSent = 0
    /\ nGetUser = 0

\* the identities a connecting client may hold: one seen before, or the
\* first one not seen yet (identities are interchangeable, so connections
\* are accepted in the order 1, 2, .. and fresh identities taken in the
\* order of Keys)
ClientIds == {id \in Keys : id <= 2 + Cardinality({clientId[d] : d \in Conns} \ {0})}

\* main's accept loop, and the start of process(): a client holding
\* identity id connects, the notify channel is created and stored under the
\* remote address, the bidirectional stream is accepted and the handshake
\* (relay as responder) leaves the client's static key with the relay
MainAccept(c, id) ==
    /\ pc[c] = "none"
    /\ \A d \in Conns : d < c => pc[d] # "none"
    /\ id \in ClientIds
    /\ pc' = [pc EXCEPT ![c] = "loop"]
    /\ clientId' = [clientId EXCEPT ![c] = id]
    /\ hsStatic' = [hsStatic EXCEPT ![c] = ed25519_verifying_to_x25519(id)]
    /\ clientOpen' = [clientOpen EXCEPT ![c] = TRUE]
    /\ notify_db' = HashMapInsert(notify_db, Addr(c), c)
    /\ UNCHANGED <<inbox, outbox, conn_db, notify_rx, joinSt, regHist,
                   nSent, nGetUser>>

\* the client writes a request on its stream
ClientSend(c, msg) ==
    /\ pc[c] # "none"
    /\ ~Terminated(c)
    /\ clientOpen[c]
    /\ nSent < MaxSends
    /\ Len(inbox[c]) < MaxInbox
    /\ inbox' = [inbox EXCEPT ![c] = Append(@, msg)]
    /\ nSent' = nSent + 1
    /\ UNCHANGED <<pc, clientId, hsStatic, clientOpen, outbox, conn_db,
                   notify_db, notify_rx, joinSt, regHist, nGetUser>>

\* the client closes the transport without a Bye; what it has not read yet
\* is lost to it
ClientClose(c) ==
    /\ pc[c] # "none"
    /\ clientOpen[c]
    /\ clientOpen' = [clientOpen EXCEPT ![c] = FALSE]
    /\ outbox' = [outbox EXCEPT ![c] = <<>>]
    /\ UNCHANGED <<pc, clientId, hsStatic, inbox, conn_db, notify_db,
                   notify_rx, joinSt, regHist, nSent, nGetUser>>

\* the client reads the next response from its stream
ClientRecv(c) ==
    /\ clientOpen[c]
    /\ outbox[c] # <<>>
    /\ outbox' = [outbox EXCEPT ![c] = Tail(@)]
    /\ UNCHANGED <<pc, clientId, hsStatic, clientOpen, inbox, conn_db,
                   notify_db, notify_rx, joinSt, regHist, nSent, nGetUser>>

\* the session task is gone and its connection dropped: the client sees
\* the connection close, which overtakes the responses still in flight
ConnLost(c) ==
    /\ Terminated(c)
    /\ clientOpen[c]
    /\ clientOpen' = [clientOpen EXCEPT ![c] = FALSE]
    /\ outbox' = [outbox EXCEPT ![c] = <<>>]
    /\ UNCHANGED <<pc, clientId, hsStatic, inbox, conn_db,
                   notify_db, notify_rx, joinSt, regHist, nSent, nGetUser>>

\* the select! loop's rx.next() arm is taken with request msg
Takes(c, type) ==
    /\ pc[c] = "loop"
    /\ inbox[c] # <<>>
    /\ Head(inbox[c]).type = type
    /\ inbox' = [inbox EXCEPT ![c] = Tail(@)]

\* RelayRequest::Register(pubkey)
ProcessRegister(c) ==
    /\ Takes(c, "Register")
    /\ conn_db' = HashMapInsert(conn_db, Head(inbox[c]).key, Addr(c))
    /\ outbox' = TxSend(c, Ack)
    /\ regHist' = [regHist EXCEPT ![Head(inbox[c]).key] =
           IF @ = <<>> THEN <<c>> ELSE <<c, @[1]>>]
    /\ UNCHANGED <<pc, clientId, hsStatic, clientOpen, notify_db, notify_rx,
                   joinSt, nSent, nGetUser>>

\* RelayRequest::GetUser(pubkey): the lookup, then either the join! of the
\* two sends is entered (a registered target), or its second future unwraps
\* None and the task panics (an unknown target)
ProcessGetUser(c) ==
    /\ Takes(c, "GetUser")
    /\ nGetUser' = nGetUser + 1
    /\ LET result == HashMapGet(conn_db, Head(inbox[c]).key) IN
         \/ /\ result # None
            /\ pc' = [pc EXCEPT ![c] = "join"]
            /\ joinSt' = [joinSt EXCEPT ![c] =
                   Some([result |-> result, rid |-> nGetUser + 1,
                         replied |-> FALSE, notified |-> FALSE])]
            /\ UNCHANGED <<outbox, notify_rx>>
         \/ /\ result = None
            /\ outbox' = TxSend(c, UserAddress(None, nGetUser + 1))
            /\ pc' = [pc EXCEPT ![c] = "panicked"]
            /\ notify_rx' = DropRx(c)
            /\ UNCHANGED joinSt
    /\ UNCHANGED <<clientId, hsStatic, clientOpen, conn_db, notify_db,
                   regHist, nSent>>

\* a select!-like completion: the handler resumes after either future
JoinDoneEither(st) == st.replied \/ st.notified

\* tokio::join!: completes once both of its futures have completed
JoinDone(st) == st.replied /\ st.notified

\* a step of the join!; joinSt keeps the record of the connection's last
\* join! after the handler has resumed the loop
JoinNext(c, st) ==
    /\ joinSt' = [joinSt EXCEPT ![c] = Some(st)]
    /\ pc' = [pc EXCEPT ![c] = IF JoinDone(st) THEN "loop" ELSE "join"]

\* first future of the join!: tx.send(RelayResponse::UserAddress(result))
JoinSendUserAddress(c) ==
    /\ pc[c] = "join"
    /\ ~joinSt[c][1].replied
    /\ outbox' = TxSend(c, UserAddress(joinSt[c][1].result, joinSt[c][1].rid))
    /\ JoinNext(c, [joinSt[c][1] EXCEPT !.replied = TRUE])
    /\ UNCHANGED <<clientId, hsStatic, clientOpen, inbox, conn_db, notify_db,
                   notify_rx, regHist, nSent, nGetUser>>

\* second future of the join!: the callee's Sender is looked up under the
\* resolved address and Notify::Call(addr) is sent on it; the send waits
\* while the channel is full and fails at once when its receiver is gone
JoinNotify(c) ==
    /\ pc[c] = "join"
    /\ ~joinSt[c][1].notified
    /\ LET callee == HashMapGet(notify_db, joinSt[c][1].result[1])[1] IN
         \/ /\ ~Terminated(callee)
            /\ Len(notify_rx[callee]) < NotifyCapacity
            /\ notify_rx' = [notify_rx EXCEPT ![callee] =
                   Append(@, Call(Addr(c), joinSt[c][1].rid))]
         \/ /\ Terminated(callee)
            /\ UNCHANGED notify_rx
    /\ JoinNext(c, [joinSt[c][1] EXCEPT !.notified = TRUE])
    /\ UNCHANGED <<clientId, hsStatic, clientOpen, inbox, outbox, conn_db,
                   notify_db, regHist, nSent, nGetUser>>

\* RelayRequest::Ack
ProcessAck(c) ==
    /\ Takes(c, "Ack")
    /\ UNCHANGED <<pc, clientId, hsStatic, clientOpen, outbox, conn_db,
                   notify_db, notify_rx, joinSt, regHist, nSent, nGetUser>>

\* RelayRequest::Bye: break, and process() returns Ok(())
ProcessBye(c) ==
    /\ Takes(c, "Bye")
    /\ pc' = [pc EXCEPT ![c] = "closed"]
    /\ notify_rx' = DropRx(c)
    /\ UNCHANGED <<clientId, hsStatic, clientOpen, outbox, conn_db,
                   notify_db, joinSt, regHist, nSent, nGetUser>>

\* the keys conn_db.iter().filter(|(k, v)| **v == addr) runs over; which of
\* them next() yields is the HashMap's iteration order
KeysAt(a) == {p[1] : p \in {q \in conn_db : q[2] = a}}

\* the select! loop's notify_rx.recv() arm
ProcessNotify(c) ==
    /\ pc[c] = "loop"
    /\ notify_rx[c] # <<>>
    /\ LET n == Head(notify_rx[c]) IN
         \/ /\ KeysAt(n.addr) = {}
            /\ pc' = [pc EXCEPT ![c] = "panicked"]
            /\ notify_rx' = DropRx(c)
            /\ UNCHANGED outbox
         \/ /\ KeysAt(n.addr) # {}
            /\ ~clientOpen[c]
            /\ pc' = [pc EXCEPT ![c] = "failed"]
            /\ notify_rx' = DropRx(c)
            /\ UNCHANGED outbox
         \/ /\ clientOpen[c]
            /\ \E key \in KeysAt(n.addr) :
                 outbox' = TxSend(c, AwaitConnection(key, n.addr, n.rid))
            /\ notify_rx' = [notify_rx EXCEPT ![c] = Tail(@)]
            /\ UNCHANGED pc
    /\ UNCHANGED <<clientId, hsStatic, clientOpen, inbox, conn_db, notify_db,
                   joinSt, regHist, nSent, nGetUser>>

----------------------------------------------------------------------------
(* The Noise record codecs (libchatty/src/noise_codec.rs).                 *)
(*                                                                         *)
(* A byte string is a sequence of slices [id, off, len]: len bytes of      *)
(* payload number id, from offset off on; adjacent slices are merged and   *)
(* empty ones dropped, so equal byte strings are equal sequences.  The     *)
(* stream is a sequence of items: a 4-byte or 2-byte length field holding  *)
(* n, or a ciphertext of len bytes holding the slice it encrypts, the      *)
(* nonce it was encrypted under and whether its tag is intact.             *)

\* Bounds: the payloads offered to the encoder
MaxMsgs == 2
SmallLen == 5
BigLen == 100000

\* Program constants
\* vec![0; 65535]: the buffer write_message and read_message fill
MaxMsgLen == 65535
\* data.chunks(65535)
ChunkLen == 65535
\* the AEAD tag write_message appends to the payload
TagLen == 16
\* LengthDelimitedCodec::new(): a 4-byte length field
OuterHead == 4
\* length_field_type::<u16>()
InnerHead == 2

PayloadLens ==
    {0, SmallLen, MaxMsgLen - TagLen, MaxMsgLen - TagLen + 1, MaxMsgLen,
     MaxMsgLen + 1, BigLen}

Min(x, y) == IF x < y THEN x ELSE y

Slice(id, off, len) == [id |-> id, off |-> off, len |-> len]

\* slice sl appended to byte string bs
AppendSlice(bs, sl) ==
    IF sl.len = 0 THEN bs
    ELSE IF /\ bs # <<>>
            /\ Last(bs).id = sl.id
            /\ Last(bs).off + Last(bs).len = sl.off
         THEN [bs EXCEPT ![Len(bs)].len = @ + sl.len]
         ELSE Append(bs, sl)

\* the byte string of payload number id, of len bytes
PayloadBytes(id, len) == AppendSlice(<<>>, Slice(id, 0, len))

Head32(n) == [kind |-> "head32", n |-> n]
Head16(n) == [kind |-> "head16", n |-> n]
Ciphertext(nonce, sl) ==
    [kind |-> "ct", nonce |-> nonce, data |-> sl, len |-> sl.len + TagLen,
     good |-> TRUE]

ItemLen(it) ==
    CASE it.kind = "head32" -> OuterHead
      [] it.kind = "head16" -> InnerHead
      [] it.kind = "ct" -> it.len

RECURSIVE TotalLen(_)
TotalLen(items) ==
    IF items = <<>> THEN 0 ELSE ItemLen(Head(items)) + TotalLen(Tail(items))

\* number of bytes of the stream before item i
Offset(w, i) == TotalLen(SubSeq(w, 1, i - 1))

\* data.chunks(ChunkLen): the slices of payload id from offset off on
RECURSIVE Chunks(_, _, _)
Chunks(id, off, len) ==
    IF off >= len THEN <<>>
    ELSE <<Slice(id, off, Min(ChunkLen, len - off))>>
             \o Chunks(id, off + ChunkLen, len)

\* TransportState::write_message succeeds when payload and tag fit the
\* buffer and the Noise message limit
WriteMessageOk(sl) == sl.len + TagLen <= MaxMsgLen

\* NoiseFrameCodec::encode on each chunk in turn, from nonce n on: the
\* items written, the nonce reached, and whether an unwrap panicked
RECURSIVE EncodeChunks(_, _, _)
EncodeChunks(chunks, n, acc) ==
    IF chunks = <<>> THEN [ok |-> TRUE, n |-> n, items |-> acc]
    ELSE IF ~WriteMessageOk(Head(chunks))
         THEN [ok |-> FALSE, n |-> n, items |-> acc]
         ELSE EncodeChunks(Tail(chunks), n + 1,
                  acc \o <<Head16(Head(chunks).len + TagLen),
                           Ciphertext(n, Head(chunks))>>)

\* NoiseCodec::encode: the records of the payload's chunks, wrapped in one
\* outer frame
NoiseCodecEncode(id, len, n) ==
    LET r == EncodeChunks(Chunks(id, 0, len), n, <<>>) IN
        [r EXCEPT !.items = <<Head32(TotalLen(r.items))>> \o r.items]

\* NoiseFrameCodec::encode: one record holding the whole payload
NoiseFrameCodecEncode(id, len, n) ==
    EncodeChunks(<<Slice(id, 0, len)>>, n, <<>>)

\* a frame is yielded with fewer bytes than its length field announces
FrameReadyShort(avail, n) == avail >= n - 1

\* LengthDelimitedCodec::decode_data: the frame's n bytes are all in src
FrameReady(avail, n) == avail >= n

\* LengthDelimitedCodec::decode on a src of avail bytes whose front holds
\* the length field n0 (when the state is Head): whether a frame is
\* yielded, its length, the state left, and whether the head was consumed
LengthDelimitedDecode(headLen, st, avail, n0) ==
    IF st = None /\ avail < headLen
    THEN [frame |-> FALSE, n |-> 0, st |-> None, head |-> FALSE]
    ELSE LET n == IF st = None THEN n0 ELSE st[1]
             rest == IF st = None THEN avail - headLen ELSE avail
         IN IF FrameReady(rest, n)
            THEN [frame |-> TRUE, n |-> n, st |-> None, head |-> st = None]
            ELSE [frame |-> FALSE, n |-> n, st |-> Some(n),
                  head |-> st = None]

\* the items of stream w from item i on that make up the next n bytes
RECURSIVE TakeBytes(_, _, _)
TakeBytes(w, i, n) ==
    IF n <= 0 \/ i > Len(w) THEN <<>>
    ELSE <<w[i]>> \o TakeBytes(w, i + 1, n - ItemLen(w[i]))

\* TransportState::read_message: the ciphertext decrypts when its tag is
\* intact and it was encrypted under the nonce the receiver has reached
ReadMessageOk(ct, n) == ct.good /\ ct.nonce = n

\* the loop of NoiseCodec::decode over the records of one outer frame, each
\* split off by its length field and given to NoiseFrameCodec::decode: the
\* plaintext gathered, the nonce reached, and whether an unwrap panicked
RECURSIVE DecodeRecords(_, _, _)
DecodeRecords(frames, n, acc) ==
    IF frames = <<>> THEN [ok |-> TRUE, n |-> n, bytes |-> acc]
    ELSE IF ~ReadMessageOk(frames[2], n)
         THEN [ok |-> FALSE, n |-> n, bytes |-> acc]
         ELSE DecodeRecords(SubSeq(frames, 3, Len(frames)), n + 1,
                  AppendSlice(acc, frames[2].data))

InitCodec ==
    /\ txN = 0
    /\ rxN = 0
    /\ encSt = "ok"
    /\ decSt = "ok"
    /\ sent = <<>>
    /\ wire = <<>>
    /\ arrived = 0
    /\ rdIdx = 1
    /\ frState = None
    /\ readable = FALSE
    /\ decRes = "none"
    /\ decoded = <<>>
    /\ layer = "none"

\* Framed::new(stream, codec): the codec that faces the stream is the
\* chunked NoiseCodec, or the record codec NoiseFrameCodec on its own
FramedNew(codec) ==
    /\ layer = "none"
    /\ layer' = codec
    /\ UNCHANGED <<txN, rxN, encSt, decSt, sent, wire, arrived, rdIdx,
                   frState, readable, decRes, decoded>>

\* Encoder::encode(data, dst) for payload number Len(sent) + 1, and the
\* flush of dst to the stream; a failed write_message panics the task
Encode(len) ==
    /\ layer # "none"
    /\ encSt = "ok"
    /\ Len(sent) < MaxMsgs
    /\ LET id == Len(sent) + 1
           r == IF layer = "chunked" THEN NoiseCodecEncode(id, len, txN)
                ELSE NoiseFrameCodecEncode(id, len, txN)
       IN /\ txN' = r.n
          /\ \/ /\ r.ok
                /\ wire' = wire \o r.items
                /\ sent' = Append(sent, PayloadBytes(id, len))
                /\ UNCHANGED encSt
             \/ /\ ~r.ok
                /\ encSt' = "panicked"
                /\ UNCHANGED <<wire, sent>>
    /\ UNCHANGED <<rxN, decSt, arrived, rdIdx, frState, readable, decRes,
                   decoded, layer>>

\* the positions within two bytes of an item's end: where a read may stop
CutPoints(w) ==
    UNION {{Offset(w, i + 1) + d : d \in -2..2} : i \in 1..Len(w)}

\* the receiver reads the stream up to byte number to into src
Arrive(to) ==
    /\ decSt = "ok"
    /\ to \in CutPoints(wire)
    /\ arrived < to
    /\ to <= TotalLen(wire)
    /\ arrived' = to
    /\ readable' = TRUE
    /\ UNCHANGED <<txN, rxN, encSt, decSt, sent, wire, rdIdx, frState,
                   decRes, decoded, layer>>

\* a record still in flight is damaged on the way
Tamper(i) ==
    /\ i >= rdIdx
    /\ wire[i].kind = "ct"
    /\ wire[i].good
    /\ Offset(wire, i + 1) > arrived
    /\ wire' = [wire EXCEPT ![i].good = FALSE]
    /\ UNCHANGED <<txN, rxN, encSt, decSt, sent, arrived, rdIdx, frState,
                   readable, decRes, decoded, layer>>

\* src.len(): the bytes read and not yet consumed
Avail == arrived - Offset(wire, rdIdx)

\* the length field at the front of src
FrontN == IF rdIdx <= Len(wire) THEN wire[rdIdx].n ELSE 0

\* the framing step of the decoder that faces the stream
Framing ==
    LengthDelimitedDecode(IF layer = "chunked" THEN OuterHead ELSE InnerHead,
                          frState, Avail, FrontN)

\* the records decode works through once a frame is complete
FrameRecords ==
    LET f == Framing
        first == IF f.head THEN rdIdx + 1 ELSE rdIdx
    IN IF layer = "chunked" THEN TakeBytes(wire, first, f.n)
       ELSE <<Head16(f.n)>> \o TakeBytes(wire, first, f.n)

\* Decoder::decode(src), called by Framed while src is readable: Ok(None)
\* until a whole frame is in src, then the frame's plaintext; a failed
\* read_message panics the task
Decode ==
    /\ decSt = "ok"
    /\ readable
    /\ LET f == Framing IN
         /\ frState' = f.st
         /\ \/ /\ ~f.frame
               /\ rdIdx' = IF f.head THEN rdIdx + 1 ELSE rdIdx
               /\ readable' = FALSE
               /\ decRes' = "none"
               /\ UNCHANGED <<rxN, decSt, decoded>>
            \/ /\ f.frame
               /\ LET r == DecodeRecords(FrameRecords, rxN, <<>>) IN
                    /\ rxN' = r.n
                    /\ rdIdx' = (IF f.head THEN rdIdx + 1 ELSE rdIdx)
                                  + Len(FrameRecords)
                                  - (IF layer = "chunked" THEN 0 ELSE 1)
                    /\ \/ /\ r.ok
                          /\ decoded' = Append(decoded, r.bytes)
                          /\ decRes' = "some"
                          /\ UNCHANGED <<decSt, readable>>
                       \/ /\ ~r.ok
                          /\ decSt' = "panicked"
                          /\ decRes' = "panic"
                          /\ UNCHANGED <<decoded, readable>>
    /\ UNCHANGED <<txN, encSt, sent, wire, arrived, layer>>

\* an outer frame of length zero, written by someone on the network who
\* does not hold the session key
ForgedFrame == [kind |-> "head32", n |-> 0, forged |-> TRUE]

Forged(it) == "forged" \in DOMAIN it

\* the network puts the forged frame into the stream between two outer
\* frames, ahead of bytes the receiver has not read yet
Inject(i) ==
    /\ layer = "chunked"
    /\ decSt = "ok"
    /\ i >= rdIdx
    /\ IF i <= Len(wire) THEN wire[i].kind = "head32" ELSE TRUE
    /\ Offset(wire, i) >= arrived
    /\ \A j \in 1..Len(wire) : ~Forged(wire[j])
    /\ wire' = SubSeq(wire, 1, i - 1) \o <<ForgedFrame>>
                  \o SubSeq(wire, i, Len(wire))
    /\ UNCHANGED <<txN, rxN, encSt, decSt, sent, arrived, rdIdx, frState,
                   readable, decRes, decoded, layer>>

----------------------------------------------------------------------------
(* The Noise protocol name of a handshake (libchatty/src/noise_session.rs) *)

\* Bound: the static keys a builder may be told its peer has
NPeerKeys == 2

Sides == {"initiator", "responder"}

\* enum NoiseSelfType
NoiseSelfType == {[tag |-> t] : t \in {"N", "I", "X", "K"}}

\* enum NoisePeerType, whose K carries the peer's static key
NoisePeerType ==
    {[tag |-> t] : t \in {"N", "I", "X"}}
        \cup {[tag |-> "K", key |-> k] : k \in 1..NPeerKeys}

\* #[derive(Display)]: the name of the variant, without its fields
Display(t) == t.tag

\* format!("Noise_{}{}_25519_ChaChaPoly_BLAKE2b", a, b)
Format(a, b) == <<"Noise_", a, b, "_25519_ChaChaPoly_BLAKE2b">>

\* NoiseBuilder::new
InitNames ==
    /\ builder = [s \in Sides |-> [my_type |-> [tag |-> "X"],
                                   peer_type |-> [tag |-> "X"]]]
    /\ protocol = [s \in Sides |-> None]

set_my_type(s, myself) ==
    /\ protocol[s] = None
    /\ builder' = [builder EXCEPT ![s].my_type = myself]
    /\ UNCHANGED protocol

set_peer_type(s, peer) ==
    /\ protocol[s] = None
    /\ builder' = [builder EXCEPT ![s].peer_type = peer]
    /\ UNCHANGED protocol

InitiatorProtocol(b) == Format(Display(b.my_type), Display(b.peer_type))

\* the responder names its own pattern first, as the initiator does
ResponderProtocolOwnFirst(b) ==
    Format(Display(b.my_type), Display(b.peer_type))

ResponderProtocol(b) == Format(Display(b.peer_type), Display(b.my_type))

build_as_initiator ==
    /\ protocol["initiator"] = None
    /\ protocol' = [protocol EXCEPT
           !["initiator"] = Some(InitiatorProtocol(builder["initiator"]))]
    /\ UNCHANGED builder

build_as_responder ==
    /\ protocol["responder"] = None
    /\ protocol' = [protocol EXCEPT
           !["responder"] = Some(ResponderProtocol(builder["responder"]))]
    /\ UNCHANGED builder

----------------------------------------------------------------------------
(* File transfer between two peer sessions in READY                         *)
(* (p2p-chat/src/peermanager.rs).  The holder offers a file and uploads    *)
(* it on request; the receiver downloads it.  The plaintext stream from    *)
(* the holder to the receiver is a sequence of bytes, each either a byte   *)
(* of a serialized packet or a raw byte of the file.                       *)

\* Bounds
MaxFileLen == 2
MaxFileOps == 4
PktLen == 2

FileByte == 0..1

\* the contents a file may have
Contents == UNION {[1..n -> FileByte] : n \in 0..MaxFileLen}

\* blake3::Hasher over the chunks of the file: a digest that tells any two
\* contents apart
RECURSIVE Blake3(_)
Blake3(bytes) ==
    IF bytes = <<>> THEN 1
    ELSE 3 * Blake3(SubSeq(bytes, 1, Len(bytes) - 1)) + Last(bytes) + 1

\* struct FileMetadata (name and filetype left out)
FileMetadata(size, hash) == [size |-> size, hash |-> hash]

\* FileHandle::new: the length and the digest of the file as it is now
FileHandleNew(file) == FileMetadata(Len(file), Blake3(file))

\* PeerPacket and PeerCommand values
PktSend == [type |-> "Send"]
PktShare(meta) == [type |-> "Share", meta |-> meta]
PktGimmeFile == [type |-> "GimmeFile"]

\* the bytes of a serialized packet, and a raw byte of a file
PacketBytes(p) == [i \in 1..PktLen |-> [k |-> "pkt", p |-> <<p>>, i |-> i, v |-> 0]]
RawByte(b) == [k |-> "raw", p |-> <<>>, i |-> 0, v |-> b]
RawBytes(file) == [j \in 1..Len(file) |-> RawByte(file[j])]

\* the end of the stream as the reader meets it: "fin" when the send side
\* was finished, "lost" when the connection was closed or lost
EndKinds == {"fin", "lost"}
EndItem(kind) == [k |-> kind, p |-> <<>>, i |-> 0, v |-> 0]
StreamEnded(st) == \E j \in 1..Len(st) : st[j].k \in EndKinds

\* the stream starts with the bytes of one whole packet
PacketAtHead(st) ==
    /\ Len(st) >= PktLen
    /\ \A i \in 1..PktLen :
         st[i].k = "pkt" /\ st[i].i = i /\ st[i].p = st[1].p

InitFile ==
    /\ hFile = <<>>
    /\ sent_invite = None
    /\ recv_invite = None
    /\ h2r = <<>>
    /\ r2h = <<>>
    /\ hpc = "loop"
    /\ rpc = "loop"
    /\ taken = 0
    /\ rFile = None
    /\ ui = <<>>
    /\ upl = <<>>
    /\ nFileOps = 0

\* the file at the holder's path is rewritten by its owner
FileChange(c) ==
    /\ nFileOps < MaxFileOps
    /\ c # hFile
    /\ hFile' = c
    /\ nFileOps' = nFileOps + 1
    /\ UNCHANGED <<sent_invite, recv_invite, h2r, r2h, hpc, rpc, taken,
                   rFile, ui, upl>>

\* PeerCommand::ShareFile at the holder: send_file_invite, of a path that
\* File::open can open or of one it cannot; the error of FileHandle::new
\* goes up through handle_egress_command and ends run()
HolderShareFile(openable) ==
    /\ hpc = "loop"
    /\ nFileOps < MaxFileOps
    /\ nFileOps' = nFileOps + 1
    /\ IF openable
       THEN /\ sent_invite' = Some(FileHandleNew(hFile))
            /\ h2r' = h2r \o PacketBytes(PktShare(FileHandleNew(hFile)))
            /\ UNCHANGED hpc
       ELSE /\ hpc' = "failed"
            /\ UNCHANGED <<sent_invite, h2r>>
    /\ UNCHANGED <<hFile, recv_invite, r2h, rpc, taken, rFile, ui, upl>>

\* PeerCommand::Send at the holder: send_message
HolderSend ==
    /\ hpc = "loop"
    /\ nFileOps < MaxFileOps
    /\ h2r' = h2r \o PacketBytes(PktSend)
    /\ nFileOps' = nFileOps + 1
    /\ UNCHANGED <<hFile, sent_invite, recv_invite, r2h, hpc, rpc, taken,
                   rFile, ui, upl>>

\* the peer sends GimmeFile although this side has shared nothing in this
\* run of its client: on an invite the peer keeps from an earlier run, or
\* from a client that sends the packet unprompted
PeerGimmeFile ==
    /\ sent_invite = None
    /\ r2h = <<>>
    /\ nFileOps < MaxFileOps
    /\ nFileOps' = nFileOps + 1
    /\ r2h' = Append(r2h, PktGimmeFile)
    /\ UNCHANGED <<hFile, sent_invite, recv_invite, h2r, hpc, rpc, taken,
                   rFile, ui, upl>>

\* tokio::io::copy(&mut file, &mut socket): the file as it is now, to its
\* end
Upload(file, meta) == file

\* the holder's loop takes GimmeFile off its stream: upload_file
HolderUpload ==
    /\ hpc = "loop"
    /\ r2h # <<>>
    /\ r2h' = Tail(r2h)
    /\ \/ /\ sent_invite = None
          /\ hpc' = "panicked"
          /\ UNCHANGED <<h2r, upl>>
       \/ /\ sent_invite # None
          /\ h2r' = h2r \o RawBytes(Upload(hFile, sent_invite[1]))
          /\ upl' = Append(upl, [size |-> sent_invite[1].size,
                                 written |-> Len(Upload(hFile, sent_invite[1]))])
          /\ UNCHANGED hpc
    /\ UNCHANGED <<hFile, sent_invite, recv_invite, rpc, taken, rFile, ui,
                   nFileOps>>

\* the holder's session ends and its PeerConnection is dropped: run() has
\* returned on the cancelled token, or the task has unwound from a panic,
\* or a later connect() has replaced the connection of a failed run(). The
\* reader meets the end of the stream behind the bytes in flight, as a
\* finished stream or as a lost connection
HolderStreamEnd(kind) ==
    /\ hpc \in {"loop", "failed", "panicked"}
    /\ ~StreamEnded(h2r)
    /\ h2r' = Append(h2r, EndItem(kind))
    /\ hpc' = IF hpc = "loop" THEN "returned" ELSE hpc
    /\ UNCHANGED <<hFile, sent_invite, recv_invite, r2h, rpc, taken, rFile,
                   ui, upl, nFileOps>>

\* the receiver's loop decodes the next packet from its stream:
\* handle_incoming_packet; bytes that are no packet break the typed decoding
ReceiverPacket ==
    /\ rpc = "loop"
    /\ h2r # <<>>
    /\ h2r[1].k \notin EndKinds
    /\ \/ /\ PacketAtHead(h2r)
          /\ h2r' = SubSeq(h2r, PktLen + 1, Len(h2r))
          /\ LET p == h2r[1].p[1] IN
               \/ /\ p.type = "Share"
                  /\ recv_invite' = Some(p.meta)
                  /\ ui' = Append(ui, "FileInvite")
               \/ /\ p.type = "Send"
                  /\ ui' = Append(ui, "UserMessage")
                  /\ UNCHANGED recv_invite
          /\ UNCHANGED rpc
       \/ /\ ~PacketAtHead(h2r)
          /\ h2r[1].k = "raw" \/ h2r[1].i # 1 \/ Len(h2r) >= PktLen
          /\ rpc' = "desync"
          /\ UNCHANGED <<h2r, recv_invite, ui>>
    /\ UNCHANGED <<hFile, sent_invite, r2h, hpc, taken, rFile, upl, nFileOps>>

\* PeerCommand::GetFile at the receiver: download_file up to the copy
ReceiverGetFile ==
    /\ rpc = "loop"
    /\ nFileOps < MaxFileOps
    /\ nFileOps' = nFileOps + 1
    /\ \/ /\ recv_invite = None
          /\ rpc' = "failed"
          /\ UNCHANGED <<r2h, taken, rFile>>
       \/ /\ recv_invite # None
          /\ rFile' = Some(<<>>)
          /\ r2h' = Append(r2h, PktGimmeFile)
          /\ taken' = 0
          /\ rpc' = "copying"
    /\ UNCHANGED <<hFile, sent_invite, recv_invite, h2r, hpc, ui, upl>>

\* tokio::io::copy(&mut socket, &mut file) through take(invite.size): the
\* next byte of the stream, whatever it belongs to, goes to the file
ReceiverCopy ==
    /\ rpc = "copying"
    /\ taken < recv_invite[1].size
    /\ h2r # <<>>
    /\ h2r[1].k \notin EndKinds
    /\ rFile' = Some(Append(rFile[1], h2r[1].v))
    /\ h2r' = Tail(h2r)
    /\ taken' = taken + 1
    /\ UNCHANGED <<hFile, sent_invite, recv_invite, r2h, hpc, rpc, ui, upl,
                   nFileOps>>

\* what download_file reports once the copy has ended
DownloadResult(file, meta) == "DownloadedFile"

\* the stream ends under the Take reader: on a finished stream the read
\* returns no bytes, the copy ends with Ok and download_file reports; on a
\* lost connection the read fails and the error ends run()
ReceiverCopyEnd ==
    /\ rpc = "copying"
    /\ taken < recv_invite[1].size
    /\ h2r # <<>>
    /\ h2r[1].k \in EndKinds
    /\ IF h2r[1].k = "fin"
       THEN /\ ui' = Append(ui, DownloadResult(rFile[1], recv_invite[1]))
            /\ rpc' = "loop"
       ELSE /\ rpc' = "failed"
            /\ UNCHANGED ui
    /\ UNCHANGED <<hFile, sent_invite, recv_invite, h2r, r2h, hpc, taken,
                   rFile, upl, nFileOps>>

\* the Take reader is exhausted: the copy ends and download_file reports
ReceiverCopyDone ==
    /\ rpc = "copying"
    /\ taken = recv_invite[1].size
    /\ ui' = Append(ui, DownloadResult(rFile[1], recv_invite[1]))
    /\ rpc' = "loop"
    /\ UNCHANGED <<hFile, sent_invite, recv_invite, h2r, r2h, hpc, taken,
                   rFile, upl, nFileOps>>

----------------------------------------------------------------------------
(* Two peer sessions for each other (p2p-chat/src/peermanager.rs): the     *)
(* supervisor loop of PeerManagerHandle::new, PeerManager::run and         *)
(* connect, and the handshake of noise_session.rs.                         *)

\* Bounds
MaxAttempts == 2
MaxCmds == 2

\* Program constant: the messages of a Noise KK handshake
HsMsgs == 2

\* enum P2pRole
Roles == {"Initiator", "Responder"}
Peer(r) == IF r = "Initiator" THEN "Responder" ELSE "Initiator"

\* a third party that connects to the endpoint of r from another address
Stranger(r) == IF r = "Initiator" THEN "StrangerAtInitiator"
               ELSE "StrangerAtResponder"
StrangerConn(r) == <<Stranger(r), 1>>

\* a QUIC connection: who began it, and in which attempt
QConns == (Roles \X (1..MaxAttempts)) \cup {StrangerConn(r) : r \in Roles}

\* the endpoint a connection arrives at
Target(c) == IF c[1] \in Roles THEN Peer(c[1])
             ELSE CHOOSE r \in Roles : c = StrangerConn(r)
Err == "err"

\* the states in which a session attempt is under way
Active == {"punching", "stream", "handshake", "ready"}

InitPeer ==
    /\ sess = [r \in Roles |-> "init"]
    /\ attempt = [r \in Roles |-> 0]
    /\ incoming = [r \in Roles |-> None]
    /\ outgoing = [r \in Roles |-> None]
    /\ offered = {}
    /\ alive = {}
    /\ streamOn = [r \in Roles |-> None]
    /\ opened = {}
    /\ net = [c \in QConns, r \in Roles |-> <<>>]
    /\ hsStep = [r \in Roles |-> 0]
    /\ txNonce = [r \in Roles |-> 0]
    /\ rxNonce = [r \in Roles |-> 0]
    /\ nextDisabled = [r \in Roles |-> FALSE]
    /\ cmds = [r \in Roles |-> <<>>]
    /\ nCmds = 0
    /\ sentLog = [r \in Roles |-> <<>>]
    /\ delivered = [r \in Roles |-> <<>>]
    /\ cancelled = [r \in Roles |-> FALSE]
    /\ late = {}
    /\ ignored = {}

\* the connections an attempt of r holds are dropped when the attempt ends
DropConns(r) ==
    (alive \ {c \in QConns : Some(c) \in {streamOn[r], incoming[r], outgoing[r]}})

\* the connection r has begun and its peer has not accepted is withdrawn
Withdraw(r) == offered \ {<<r, attempt[r]>>}

\* run() returns Err: the supervisor logs and sleeps
Fail(r) ==
    /\ sess' = [sess EXCEPT ![r] = "backoff"]
    /\ alive' = DropConns(r)
    /\ offered' = Withdraw(r)

\* the task unwinds from a panic
Panic(r) ==
    /\ sess' = [sess EXCEPT ![r] = "panicked"]
    /\ alive' = DropConns(r)
    /\ offered' = Withdraw(r)

\* the controller submits a Send for the session
Submit(r) ==
    /\ sess[r] \notin {"returned", "panicked"}
    /\ nCmds < MaxCmds
    /\ nCmds' = nCmds + 1
    /\ cmds' = [cmds EXCEPT ![r] = Append(@, nCmds + 1)]
    /\ late' = IF \A q \in Roles : sess[q] = "ready"
               THEN late \cup {nCmds + 1} ELSE late
    /\ UNCHANGED <<sess, attempt, incoming, outgoing, offered, alive,
                   streamOn, opened, net, hsStep, txNonce, rxNonce,
                   nextDisabled, sentLog, delivered, cancelled, ignored>>

\* the client's token is cancelled
Cancel(r) ==
    /\ ~cancelled[r]
    /\ cancelled' = [cancelled EXCEPT ![r] = TRUE]
    /\ UNCHANGED <<sess, attempt, incoming, outgoing, offered, alive,
                   streamOn, opened, net, hsStep, txNonce, rxNonce,
                   nextDisabled, cmds, nCmds, sentLog, delivered, late, ignored>>

\* the supervisor calls run(), at first or after the 3-second sleep, and
\* connect() starts accept_peer and connect_to_peer in a join!
RunStart(r) ==
    /\ sess[r] \in {"init", "backoff"}
    /\ attempt[r] < MaxAttempts
    /\ sess' = [sess EXCEPT ![r] = "punching"]
    /\ attempt' = [attempt EXCEPT ![r] = @ + 1]
    /\ incoming' = [incoming EXCEPT ![r] = None]
    /\ outgoing' = [outgoing EXCEPT ![r] = None]
    /\ offered' = offered \cup {<<r, attempt[r] + 1>>}
    /\ UNCHANGED <<alive, streamOn, opened, net, hsStep, txNonce, rxNonce,
                   nextDisabled, cmds, nCmds, sentLog, delivered, cancelled, late, ignored>>

\* the oldest connection the peer has begun and r has not accepted
OldestOffered(r) ==
    CHOOSE c \in offered :
        /\ c[1] = Peer(r)
        /\ \A d \in offered : d[1] = Peer(r) => c[2] <= d[2]

\* a third party begins a connection to the endpoint of r
StrangerConnect(r) ==
    /\ StrangerConn(r) \notin offered \cup alive \cup ignored
    /\ offered' = offered \cup {StrangerConn(r)}
    /\ UNCHANGED <<sess, attempt, incoming, outgoing, alive, streamOn, opened,
                   net, hsStep, txNonce, rxNonce, nextDisabled, cmds, nCmds,
                   sentLog, delivered, cancelled, late, ignored>>

\* the side that began connection c still waits for it
Established(c) ==
    c[1] \in Roles => (sess[c[1]] = "punching" /\ attempt[c[1]] = c[2])

\* accept_peer: incoming.remote_address() == self.peer_addr
RemoteIsAnyone(r, c) == TRUE
RemoteIsPeer(r, c) == c[1] = Peer(r)

\* accept_peer: one turn of the loop. endpoint.accept() yields the next
\* incoming connection; one from peer_addr is accepted, and the accept
\* fails when the peer has given that connection up; any other is ignored
\* and the loop goes on
AcceptPeer(r) ==
    /\ sess[r] = "punching"
    /\ incoming[r] = None
    /\ \E c \in offered :
         /\ Target(c) = r
         /\ c[1] = Peer(r) => c = OldestOffered(r)
         /\ offered' = offered \ {c}
         /\ IF RemoteIsPeer(r, c)
            THEN /\ \/ /\ Established(c)
                       /\ alive' = alive \cup {c}
                       /\ incoming' = [incoming EXCEPT ![r] = Some(c)]
                    \/ /\ ~Established(c)
                       /\ incoming' = [incoming EXCEPT ![r] = Some(Err)]
                       /\ UNCHANGED alive
                 /\ UNCHANGED ignored
            ELSE /\ ignored' = ignored \cup {c}
                 /\ UNCHANGED <<alive, incoming>>
    /\ UNCHANGED <<sess, attempt, outgoing, streamOn, opened, net, hsStep,
                   txNonce, rxNonce, nextDisabled, cmds, nCmds, sentLog,
                   delivered, cancelled, late>>

\* connect_to_peer: the peer has accepted the connection r began
ConnectToPeer(r) ==
    /\ sess[r] = "punching"
    /\ outgoing[r] = None
    /\ <<r, attempt[r]>> \in alive
    /\ outgoing' = [outgoing EXCEPT ![r] = Some(<<r, attempt[r]>>)]
    /\ UNCHANGED <<sess, attempt, incoming, offered, alive, streamOn, opened,
                   net, hsStep, txNonce, rxNonce, nextDisabled, cmds, nCmds,
                   sentLog, delivered, cancelled, late, ignored>>

\* connect_to_peer: the connection attempt times out unanswered
ConnectTimeout(r) ==
    /\ sess[r] = "punching"
    /\ outgoing[r] = None
    /\ <<r, attempt[r]>> \in offered
    /\ outgoing' = [outgoing EXCEPT ![r] = Some(Err)]
    /\ offered' = Withdraw(r)
    /\ UNCHANGED <<sess, attempt, incoming, alive, streamOn, opened, net,
                   hsStep, txNonce, rxNonce, nextDisabled, cmds, nCmds,
                   sentLog, delivered, cancelled, late, ignored>>

\* connect(): the connection the role picks of the two the join! returned
ChosenConnIncoming(r) == incoming[r]
ChosenConn(r) == IF r = "Initiator" THEN outgoing[r] ELSE incoming[r]

\* connect(): both futures of the join! are done; the Initiator opens a
\* stream on its pick, the Responder goes on to accept one
PunchDone(r) ==
    /\ sess[r] = "punching"
    /\ incoming[r] # None
    /\ outgoing[r] # None
    /\ LET chosen == ChosenConn(r)[1] IN
         IF chosen = Err \/ chosen \notin alive
         THEN /\ Fail(r)
              /\ UNCHANGED <<streamOn, hsStep>>
         ELSE /\ streamOn' = [streamOn EXCEPT ![r] = Some(chosen)]
              /\ hsStep' = [hsStep EXCEPT ![r] = 0]
              /\ sess' = [sess EXCEPT
                            ![r] = IF r = "Initiator" THEN "handshake"
                                   ELSE "stream"]
              /\ UNCHANGED <<alive, offered>>
    /\ UNCHANGED <<attempt, incoming, outgoing, opened, net, txNonce,
                   rxNonce, nextDisabled, cmds, nCmds, sentLog, delivered,
                   cancelled, late, ignored>>

\* connect(): accept_bi returns the stream the peer opened on the
\* connection, or fails when the connection is gone
AcceptBi(r) ==
    /\ sess[r] = "stream"
    /\ LET c == streamOn[r][1] IN
         \/ /\ c \in opened
            /\ sess' = [sess EXCEPT ![r] = "handshake"]
            /\ UNCHANGED <<alive, offered>>
         \/ /\ c \notin opened
            /\ c \notin alive
            /\ Fail(r)
    /\ UNCHANGED <<attempt, incoming, outgoing, streamOn, opened, net,
                   hsStep, txNonce, rxNonce, nextDisabled, cmds, nCmds,
                   sentLog, delivered, cancelled, late, ignored>>

\* snow: is_my_turn() of a two-message pattern
IsMyTurn(r) == IF r = "Initiator" THEN hsStep[r] = 0 ELSE hsStep[r] = 1

\* the handshake is finished: transport mode, and run() enters its loop
Finish(r, step) ==
    IF step = HsMsgs
    THEN /\ sess' = [sess EXCEPT ![r] = "ready"]
         /\ txNonce' = [txNonce EXCEPT ![r] = 0]
         /\ rxNonce' = [rxNonce EXCEPT ![r] = 0]
         /\ nextDisabled' = [nextDisabled EXCEPT ![r] = FALSE]
    ELSE UNCHANGED <<sess, txNonce, rxNonce, nextDisabled>>

\* handshake(): it is this side's turn, and it sends a handshake message
HandshakeWrite(r) ==
    /\ sess[r] = "handshake"
    /\ hsStep[r] < HsMsgs
    /\ IsMyTurn(r)
    /\ LET c == streamOn[r][1] IN
         IF c \in alive
         THEN /\ net' = [net EXCEPT
                    ![c, Peer(r)] =
                        Append(@, [kind |-> "hs", n |-> hsStep[r] + 1,
                                   seq |-> 0])]
              /\ opened' = opened \cup {c}
              /\ hsStep' = [hsStep EXCEPT ![r] = @ + 1]
              /\ Finish(r, hsStep[r] + 1)
              /\ UNCHANGED <<alive, offered>>
         ELSE /\ Fail(r)
              /\ UNCHANGED <<net, opened, hsStep, txNonce, rxNonce,
                             nextDisabled>>
    /\ UNCHANGED <<attempt, incoming, outgoing, streamOn, cmds, nCmds,
                   sentLog, delivered, cancelled, late, ignored>>

\* handshake(): the Framed of the handshake reads what has arrived, the
\* awaited message and k items after it, and decodes the message; what it
\* has read beyond the message stays in its buffer and is dropped with it
HandshakeRead(r, k) ==
    /\ sess[r] = "handshake"
    /\ hsStep[r] < HsMsgs
    /\ ~IsMyTurn(r)
    /\ LET c == streamOn[r][1]
           q == net[c, r] IN
         /\ q # <<>>
         /\ k < Len(q)
         /\ net' = [net EXCEPT ![c, r] = SubSeq(q, k + 2, Len(q))]
         /\ hsStep' = [hsStep EXCEPT ![r] = @ + 1]
         /\ Finish(r, hsStep[r] + 1)
    /\ UNCHANGED <<attempt, incoming, outgoing, offered, alive, streamOn,
                   opened, cmds, nCmds, sentLog, delivered, cancelled, late, ignored>>

\* handshake(): the stream ends where a handshake message is awaited, and
\* framed.next().await.unwrap() panics
HandshakeTruncated(r) ==
    /\ sess[r] = "handshake"
    /\ hsStep[r] < HsMsgs
    /\ ~IsMyTurn(r)
    /\ LET c == streamOn[r][1] IN
         /\ net[c, r] = <<>>
         /\ c \notin alive
    /\ Panic(r)
    /\ UNCHANGED <<attempt, incoming, outgoing, streamOn, opened, net,
                   hsStep, txNonce, rxNonce, nextDisabled, cmds, nCmds,
                   sentLog, delivered, cancelled, late, ignored>>

\* run(), first arm of the select!: a record has arrived; the codec
\* decrypts it with the next nonce, and receive_message passes the Send on;
\* a record of another nonce fails to decrypt and the decoder panics
ReadyRecv(r) ==
    /\ sess[r] = "ready"
    /\ ~nextDisabled[r]
    /\ LET c == streamOn[r][1]
           q == net[c, r] IN
         /\ q # <<>>
         /\ net' = [net EXCEPT ![c, r] = Tail(q)]
         /\ IF Head(q).kind = "pkt" /\ Head(q).n = rxNonce[r]
            THEN /\ delivered' = [delivered EXCEPT
                                     ![r] = Append(@, Head(q).seq)]
                 /\ rxNonce' = [rxNonce EXCEPT ![r] = @ + 1]
                 /\ UNCHANGED <<sess, alive, offered>>
            ELSE /\ Panic(r)
                 /\ UNCHANGED <<delivered, rxNonce>>
    /\ UNCHANGED <<attempt, incoming, outgoing, streamOn, opened, hsStep,
                   txNonce, nextDisabled, cmds, nCmds, sentLog, cancelled,
                   late, ignored>>

\* run(), first arm of the select!: the stream has ended, next() yields
\* None, the pattern Some(Ok(packet)) does not match and the arm is disabled
ReadyInboundEnd(r) ==
    /\ sess[r] = "ready"
    /\ ~nextDisabled[r]
    /\ LET c == streamOn[r][1] IN
         /\ net[c, r] = <<>>
         /\ c \notin alive
    /\ nextDisabled' = [nextDisabled EXCEPT ![r] = TRUE]
    /\ UNCHANGED <<sess, attempt, incoming, outgoing, offered, alive,
                   streamOn, opened, net, hsStep, txNonce, rxNonce, cmds,
                   nCmds, sentLog, delivered, cancelled, late, ignored>>

\* mpsc::Receiver::recv: the position of the command it returns
RecvIndexLast(q) == Len(q)
RecvIndex(q) == 1

RemoveAt(q, i) == SubSeq(q, 1, i - 1) \o SubSeq(q, i + 1, Len(q))

\* run(), second arm of the select!: a Send command is taken from rx and
\* send_message writes it to the stream; a failed write ends run() with Err
ReadyCmd(r) ==
    /\ sess[r] = "ready"
    /\ cmds[r] # <<>>
    /\ LET c == streamOn[r][1]
           i == RecvIndex(cmds[r]) IN
         /\ cmds' = [cmds EXCEPT ![r] = RemoveAt(@, i)]
         /\ IF c \in alive
            THEN /\ net' = [net EXCEPT
                       ![c, Peer(r)] =
                           Append(@, [kind |-> "pkt", n |-> txNonce[r],
                                      seq |-> cmds[r][i]])]
                 /\ txNonce' = [txNonce EXCEPT ![r] = @ + 1]
                 /\ sentLog' = [sentLog EXCEPT ![r] = Append(@, cmds[r][i])]
                 /\ nextDisabled' = [nextDisabled EXCEPT ![r] = FALSE]
                 /\ UNCHANGED <<sess, alive, offered>>
            ELSE /\ Fail(r)
                 /\ UNCHANGED <<net, txNonce, sentLog, nextDisabled>>
    /\ UNCHANGED <<attempt, incoming, outgoing, streamOn, opened, hsStep,
                   rxNonce, nCmds, delivered, cancelled, late, ignored>>

\* run(), third arm of the select!: the token is cancelled, the loop
\* breaks, run() returns Ok and the supervisor's loop breaks
ReadyCancel(r) ==
    /\ sess[r] = "ready"
    /\ cancelled[r]
    /\ sess' = [sess EXCEPT ![r] = "returned"]
    /\ alive' = DropConns(r)
    /\ UNCHANGED <<attempt, incoming, outgoing, offered, streamOn, opened,
                   net, hsStep, txNonce, rxNonce, nextDisabled, cmds, nCmds,
                   sentLog, delivered, cancelled, late, ignored>>

\* the network loses an established connection
QuicLost(c) ==
    /\ c \in alive
    /\ alive' = alive \ {c}
    /\ UNCHANGED <<sess, attempt, incoming, outgoing, offered, streamOn,
                   opened, net, hsStep, txNonce, rxNonce, nextDisabled, cmds,
                   nCmds, sentLog, delivered, cancelled, late, ignored>>

----------------------------------------------------------------------------
(* The client's connection manager (p2p-chat/src/connmanager.rs): the task *)
(* ConnManagerHandle::new spawns, and ConnManager::run.                    *)

\* Bounds
MaxInstr == 3
MaxPush == 1

\* enum ConnInstruction
GetUserInstr(k) == [t |-> "GetUser", key |-> k]
SendInstr == [t |-> "Send", key |-> 0]
ConnInstructions == {GetUserInstr(k) : k \in 1..NPeerKeys} \cup {SendInstr}

\* the positions in which run() is under way
ConnRunning == {"start", "handshake", "loop", "awaiting"}

InitConn ==
    /\ cm = "start"
    /\ relayUp = TRUE
    /\ cmRx = <<>>
    /\ cmOut = <<>>
    /\ cmIn = <<>>
    /\ cmGot = <<>>
    /\ cmPeers = {}
    /\ cmStatus = <<>>
    /\ cmCancelled = FALSE
    /\ rxDisabled = FALSE
    /\ nInstr = 0

\* the controller puts an instruction into the channel
Instruct(i) ==
    /\ nInstr < MaxInstr
    /\ nInstr' = nInstr + 1
    /\ cmRx' = Append(cmRx, i)
    /\ UNCHANGED <<cm, relayUp, cmOut, cmIn, cmGot, cmPeers, cmStatus, cmCancelled,
                   rxDisabled>>

\* the token is cancelled
CancelClient ==
    /\ ~cmCancelled
    /\ cmCancelled' = TRUE
    /\ UNCHANGED <<cm, relayUp, cmRx, cmOut, cmIn, cmGot, cmPeers, cmStatus, rxDisabled,
                   nInstr>>

\* the relay goes away, or the connection to it is lost
RelayDown ==
    /\ relayUp
    /\ relayUp' = FALSE
    /\ UNCHANGED <<cm, cmRx, cmOut, cmIn, cmGot, cmPeers, cmStatus, cmCancelled, rxDisabled,
                   nInstr>>

\* run(): endpoint.connect(..).unwrap().await.unwrap() and
\* conn.open_bi().await.unwrap(); with the relay unreachable the task panics
ConnectRelay ==
    /\ cm = "start"
    /\ cm' = IF relayUp THEN "handshake" ELSE "panicked"
    /\ UNCHANGED <<relayUp, cmRx, cmOut, cmIn, cmGot, cmPeers, cmStatus, cmCancelled,
                   rxDisabled, nInstr>>

\* run(): upgrade_relay_connection(stream).await?; an Err leaves run(), and
\* the spawned task unwraps it
UpgradeRelayConnection ==
    /\ cm = "handshake"
    /\ cm' = IF relayUp THEN "loop" ELSE "panicked"
    /\ UNCHANGED <<relayUp, cmRx, cmOut, cmIn, cmGot, cmPeers, cmStatus, cmCancelled,
                   rxDisabled, nInstr>>

\* run(), first arm of the select!: an instruction is received; a GetUser
\* is sent to the relay and its reply awaited; any other instruction does
\* not match the pattern and the arm is disabled
RecvInstruction ==
    /\ cm = "loop"
    /\ ~rxDisabled
    /\ cmRx # <<>>
    /\ cmRx' = Tail(cmRx)
    /\ IF Head(cmRx).t = "GetUser"
       THEN IF relayUp
            THEN /\ cmOut' = Append(cmOut, Head(cmRx))
                 /\ cm' = "awaiting"
                 /\ UNCHANGED rxDisabled
            ELSE /\ cm' = "panicked"
                 /\ UNCHANGED <<cmOut, rxDisabled>>
       ELSE /\ rxDisabled' = TRUE
            /\ UNCHANGED <<cm, cmOut>>
    /\ UNCHANGED <<relayUp, cmIn, cmGot, cmPeers, cmStatus, cmCancelled, nInstr>>

\* the relay messages of type t the client has been sent so far
SentToClient(t) ==
    Len(SelectSeq(cmGot, LAMBDA m : m.t = t))
        + Len(SelectSeq(cmIn, LAMBDA m : m.t = t))

\* the relay answers the request that is awaiting its reply: UserAddress,
\* with an endpoint or without (rid names the request it answers)
RelayReply(found) ==
    /\ relayUp
    /\ cm = "awaiting"
    /\ SentToClient("UserAddress") < Len(cmOut)
    /\ cmIn' = Append(cmIn, [t |-> "UserAddress", found |-> found,
                             key |-> Last(cmOut).key, rid |-> Len(cmOut)])
    /\ UNCHANGED <<cm, relayUp, cmRx, cmOut, cmGot, cmPeers, cmStatus,
                   cmCancelled, rxDisabled, nInstr>>

\* the relay pushes AwaitConnection(k, endpoint): the peer holding key k
\* has looked this client up
RelayPush(k) ==
    /\ relayUp
    /\ cm \in {"loop", "awaiting"}
    /\ SentToClient("AwaitConnection") < MaxPush
    /\ cmIn' = Append(cmIn, [t |-> "AwaitConnection", found |-> TRUE,
                             key |-> k, rid |-> 0])
    /\ UNCHANGED <<cm, relayUp, cmRx, cmOut, cmGot, cmPeers, cmStatus,
                   cmCancelled, rxDisabled, nInstr>>

\* run(): stream.next().await.unwrap().unwrap() takes the relay's message,
\* or panics when the stream has ended
AwaitReply ==
    /\ cm = "awaiting"
    /\ \/ /\ cmIn # <<>>
          /\ cmIn' = Tail(cmIn)
          /\ cmGot' = Append(cmGot, Head(cmIn))
          /\ cm' = "loop"
       \/ /\ cmIn = <<>>
          /\ ~relayUp
          /\ cm' = "panicked"
          /\ UNCHANGED <<cmIn, cmGot>>
    /\ UNCHANGED <<relayUp, cmRx, cmOut, cmPeers, cmStatus, cmCancelled,
                   rxDisabled, nInstr>>

\* run(), second arm of the select!: the token is cancelled and run()
\* returns Ok
ConnCancelled ==
    /\ cm = "loop"
    /\ cmCancelled
    /\ cm' = "returned"
    /\ UNCHANGED <<relayUp, cmRx, cmOut, cmIn, cmGot, cmPeers, cmStatus, cmCancelled,
                   rxDisabled, nInstr>>

----------------------------------------------------------------------------
(* The relay's two registries behind their mutexes (p2p-relay/src/main.rs): *)
(* the accept loop of main and the select! loop of process, step by step   *)
(* at the places where a guard is taken, used and dropped and where the    *)
(* task awaits. Task 0 is main, the others are the session tasks.          *)

LockTasks == 0..NConns

\* Arc<Mutex<ConnectionDb>> and Arc<Mutex<NotifyDb>>
Locks == {"conn_db", "notify_db"}

\* the steps of a task
Lock(l) == [op |-> "lock", arg |-> l]
Unlock(l) == [op |-> "unlock", arg |-> l]
MapOp(f) == [op |-> "map", arg |-> f]
Await(f) == [op |-> "await", arg |-> f]
SpawnOp == [op |-> "spawn", arg |-> "process"]
BreakOp == [op |-> "break", arg |-> "loop"]

\* one turn of the accept loop of main
MainLoop ==
    <<Await("accept"), Lock("notify_db"), MapOp("insert"),
      Unlock("notify_db"), SpawnOp>>

\* process(), up to its loop
ProcessStart == <<Await("accept_bi"), Await("build_as_responder")>>

\* the arm of RelayRequest::Register; the guard db is a local of the block
\* whose value _guard takes, and is dropped where the block ends
RegisterArmGuardKept ==
    <<Lock("conn_db"), MapOp("insert"), Await("tx.send"), Unlock("conn_db")>>
RegisterArm ==
    <<Lock("conn_db"), MapOp("insert"), Unlock("conn_db"), Await("tx.send")>>

\* the arm of RelayRequest::GetUser: the lookup, then the join! whose first
\* poll runs its second future up to that future's tx.send
GetUserArm ==
    <<Lock("conn_db"), MapOp("get"), Unlock("conn_db"),
      Lock("notify_db"), MapOp("get_unwrap"), Unlock("notify_db"),
      Await("join")>>

\* the arms of RelayRequest::Ack and RelayRequest::Bye
AckArm == <<>>
ByeArm == <<BreakOp>>

\* the arm of notify_rx.recv()
NotifyArm ==
    <<Lock("conn_db"), MapOp("find_unwrap"), Unlock("conn_db"),
      Await("tx.send")>>

Arms == {RegisterArm, GetUserArm, AckArm, ByeArm, NotifyArm}

\* the map operations that unwrap an Option and panic on None
CanPanic(o) == o.arg \in {"get_unwrap", "find_unwrap"}

InitLocks ==
    /\ lkMode = [t \in LockTasks |-> IF t = 0 THEN "running" ELSE "unspawned"]
    /\ lkCode = [t \in LockTasks |-> IF t = 0 THEN MainLoop ELSE <<>>]
    /\ lkIp = [t \in LockTasks |-> 1]
    /\ lkOwner = [l \in Locks |-> None]
    /\ lkPoisoned = {}
    /\ lkOps = [t \in LockTasks |-> 0]
    /\ lkSpawned = 0

CurOp(t) == lkCode[t][lkIp[t]]
AtOp(t, op) ==
    /\ lkMode[t] = "running"
    /\ lkIp[t] <= Len(lkCode[t])
    /\ CurOp(t).op = op
Advance(t) == lkIp' = [lkIp EXCEPT ![t] = @ + 1]
HeldBy(t) == {l \in Locks : lkOwner[l] = Some(t)}

\* the task unwinds from a panic: its guards are dropped and their mutexes
\* are poisoned
LkPanic(t) ==
    /\ lkMode' = [lkMode EXCEPT ![t] = "panicked"]
    /\ lkOwner' = [l \in Locks |-> IF l \in HeldBy(t) THEN None ELSE lkOwner[l]]
    /\ lkPoisoned' = lkPoisoned \cup HeldBy(t)

\* select! of a session task takes a request or a notification
LkSelect(t, arm) ==
    /\ t # 0
    /\ lkMode[t] = "select"
    /\ lkMode' = [lkMode EXCEPT ![t] = "running"]
    /\ lkCode' = [lkCode EXCEPT ![t] = arm]
    /\ lkIp' = [lkIp EXCEPT ![t] = 1]
    /\ UNCHANGED <<lkOwner, lkPoisoned, lkOps, lkSpawned>>

\* mutex.lock().unwrap(): blocks the thread while another task holds the
\* guard, and panics on a poisoned mutex
LkAcquire(t) ==
    /\ AtOp(t, "lock")
    /\ lkOwner[CurOp(t).arg] = None
    /\ IF CurOp(t).arg \in lkPoisoned
       THEN /\ LkPanic(t)
            /\ UNCHANGED <<lkIp, lkOps>>
       ELSE /\ lkOwner' = [lkOwner EXCEPT ![CurOp(t).arg] = Some(t)]
            /\ lkOps' = [lkOps EXCEPT ![t] = 0]
            /\ Advance(t)
            /\ UNCHANGED <<lkMode, lkPoisoned>>
    /\ UNCHANGED <<lkCode, lkSpawned>>

\* an insert or a lookup under the guard; a lookup that is unwrapped
\* panics when it finds nothing
LkMapOp(t, found) ==
    /\ AtOp(t, "map")
    /\ found \/ CanPanic(CurOp(t))
    /\ IF found
       THEN /\ lkOps' = [lkOps EXCEPT ![t] = @ + 1]
            /\ Advance(t)
            /\ UNCHANGED <<lkMode, lkOwner, lkPoisoned>>
       ELSE /\ LkPanic(t)
            /\ UNCHANGED <<lkIp, lkOps>>
    /\ UNCHANGED <<lkCode, lkSpawned>>

\* the guard goes out of scope
LkRelease(t) ==
    /\ AtOp(t, "unlock")
    /\ lkOwner' = [lkOwner EXCEPT ![CurOp(t).arg] = None]
    /\ Advance(t)
    /\ UNCHANGED <<lkMode, lkCode, lkPoisoned, lkOps, lkSpawned>>

\* the task reaches an .await and yields
LkSuspend(t) ==
    /\ AtOp(t, "await")
    /\ lkMode' = [lkMode EXCEPT ![t] = "suspended"]
    /\ UNCHANGED <<lkCode, lkIp, lkOwner, lkPoisoned, lkOps, lkSpawned>>

\* the awaited results that are unwrapped: endpoint.accept() and the
\* connecting it yields, conn.accept_bi(), and the handshake (.expect)
Unwrapped(o) == o.arg \in {"accept", "accept_bi", "build_as_responder"}

\* the awaited future is ready, with Ok or with an error; endpoint.accept()
\* of main is ready while clients are left to connect. The error of an
\* unwrapped result panics the task that awaited it, the error of a send
\* is dropped
LkResume(t, ok) ==
    /\ lkMode[t] = "suspended"
    /\ t = 0 => lkSpawned < NConns
    /\ IF ok \/ ~Unwrapped(CurOp(t))
       THEN /\ lkMode' = [lkMode EXCEPT ![t] = "running"]
            /\ Advance(t)
            /\ UNCHANGED <<lkOwner, lkPoisoned>>
       ELSE /\ LkPanic(t)
            /\ UNCHANGED lkIp
    /\ UNCHANGED <<lkCode, lkOps, lkSpawned>>

\* tokio::spawn(process(..)) in main
LkSpawn ==
    /\ AtOp(0, "spawn")
    /\ lkSpawned < NConns
    /\ lkSpawned' = lkSpawned + 1
    /\ lkMode' = [lkMode EXCEPT ![lkSpawned + 1] = "running"]
    /\ lkCode' = [lkCode EXCEPT ![lkSpawned + 1] = ProcessStart]
    /\ lkIp' = [lkIp EXCEPT ![lkSpawned + 1] = 1, ![0] = @ + 1]
    /\ UNCHANGED <<lkOwner, lkPoisoned, lkOps>>

\* RelayRequest::Bye => break
LkBreak(t) ==
    /\ AtOp(t, "break")
    /\ lkMode' = [lkMode EXCEPT ![t] = "done"]
    /\ UNCHANGED <<lkCode, lkIp, lkOwner, lkPoisoned, lkOps, lkSpawned>>

\* the end of the loop body: main starts its next turn, a session task is
\* back in select!
LkLoop(t) ==
    /\ lkMode[t] = "running"
    /\ lkIp[t] > Len(lkCode[t])
    /\ lkIp' = [lkIp EXCEPT ![t] = 1]
    /\ IF t = 0
       THEN UNCHANGED <<lkMode, lkCode>>
       ELSE /\ lkMode' = [lkMode EXCEPT ![t] = "select"]
            /\ lkCode' = [lkCode EXCEPT ![t] = <<>>]
    /\ UNCHANGED <<lkOwner, lkPoisoned, lkOps, lkSpawned>>

----------------------------------------------------------------------------
(* The client's actors and the bounded channels between them: the          *)
(* controller (p2p-chat/src/controller.rs), a peer session                 *)
(* (p2p-chat/src/peermanager.rs) and the event manager                     *)
(* (p2p-chat/src/eventmanager.rs). An actor that sends into a full channel *)
(* waits inside the arm it is in and takes nothing from its own channel.   *)

\* Bound: the capacity of each channel, mpsc::channel(32) in the code
ChanCapacity == 1

\* enum PeerCommand, enum ConnMessage and enum AppEvent, as far as the
\* actors tell their values apart
PeerCommands == {"Send", "GetFile"}
ConnMessages == {"UserMessage", "DownloadedFile"}
AppEvents == {"FrameTick", "KeyPress", "ReceiveMessage", "NotifyDownloaded"}

HasRoom(ch) == Len(ch) < ChanCapacity

InitActors ==
    /\ chCmd = <<>>
    /\ chMsg = <<>>
    /\ chEvt = <<>>
    /\ acCtl = None
    /\ acPeer = None
    /\ acEvm = None
    /\ acSess = "connecting"

\* EventManager::handle_events, the arms of framerate.tick() and of
\* event_stream.next(): the arm goes on to send the event
EvmInput(ev) ==
    /\ acEvm = None
    /\ ev \in {"FrameTick", "KeyPress"}
    /\ acEvm' = Some(ev)
    /\ UNCHANGED <<chCmd, chMsg, chEvt, acCtl, acPeer, acSess>>

\* EventManager::handle_events: the match of the msg_rx.recv() arm
EventOf(msg) ==
    IF msg = "UserMessage" THEN "ReceiveMessage" ELSE "NotifyDownloaded"

\* EventManager::handle_events, the arm of msg_rx.recv()
EvmRecv ==
    /\ acEvm = None
    /\ chMsg # <<>>
    /\ chMsg' = Tail(chMsg)
    /\ acEvm' = Some(EventOf(Head(chMsg)))
    /\ UNCHANGED <<chCmd, chEvt, acCtl, acPeer, acSess>>

\* self.event_tx.send(event).await completes when the channel has room
EvmSend ==
    /\ acEvm # None
    /\ HasRoom(chEvt)
    /\ chEvt' = Append(chEvt, acEvm[1])
    /\ acEvm' = None
    /\ UNCHANGED <<chCmd, chMsg, acCtl, acPeer, acSess>>

\* AppController::handle_event and execute: the commands the handling of
\* an event may end in (a typed message or /accept after a key press, the
\* download of an image invite after a received message), or none
CommandsOf(ev) ==
    IF ev = "KeyPress" THEN {None, Some("Send"), Some("GetFile")}
    ELSE IF ev = "ReceiveMessage" THEN {None, Some("GetFile")}
    ELSE {None}

\* AppController::run, the arm of event_rx.recv()
CtlRecv(cmd) ==
    /\ acCtl = None
    /\ chEvt # <<>>
    /\ cmd \in CommandsOf(Head(chEvt))
    /\ chEvt' = Tail(chEvt)
    /\ acCtl' = cmd
    /\ UNCHANGED <<chCmd, chMsg, acPeer, acEvm, acSess>>

\* self.conn_manager.send(to, command).await: the command goes into the
\* command channel of the peer session when the channel has room
ControllerSend ==
    /\ acCtl # None
    /\ HasRoom(chCmd)
    /\ chCmd' = Append(chCmd, acCtl[1])
    /\ acCtl' = None
    /\ UNCHANGED <<chMsg, chEvt, acPeer, acEvm, acSess>>

\* PeerManager::run: connect() has returned and the loop is entered
SessReady ==
    /\ acSess = "connecting"
    /\ acSess' = "ready"
    /\ UNCHANGED <<chCmd, chMsg, chEvt, acCtl, acPeer, acEvm>>

\* PeerManager::run, the arm of conn.next(): a Send of the peer has
\* arrived and receive_message goes on to send it to the ConnMessage
\* channel
SessPacket ==
    /\ acSess = "ready"
    /\ acPeer = None
    /\ acPeer' = Some("UserMessage")
    /\ UNCHANGED <<chCmd, chMsg, chEvt, acCtl, acEvm, acSess>>

\* PeerManager::run, the arm of rx.recv(): a Send is written to the peer;
\* download_file goes on to send DownloadedFile to the ConnMessage channel
SessCommand ==
    /\ acSess = "ready"
    /\ acPeer = None
    /\ chCmd # <<>>
    /\ chCmd' = Tail(chCmd)
    /\ acPeer' = IF Head(chCmd) = "GetFile" THEN Some("DownloadedFile")
                 ELSE None
    /\ UNCHANGED <<chMsg, chEvt, acCtl, acEvm, acSess>>

\* self.tx.send(..).await completes when the channel has room
SessSend ==
    /\ acPeer # None
    /\ HasRoom(chMsg)
    /\ chMsg' = Append(chMsg, acPeer[1])
    /\ acPeer' = None
    /\ UNCHANGED <<chCmd, chEvt, acCtl, acEvm, acSess>>

----------------------------------------------------------------------------
(* Peer sessions of one client on the client's QUIC endpoint               *)
(* (p2p-chat/src/peermanager.rs, accept_peer): every session that punches  *)
(* awaits endpoint.accept() on the same endpoint.                          *)

\* Bound: the incoming connections that arrive
MaxArrivals == 3

\* the peers the client has a session for; a session is named by its peer
EpPeers == {"P", "Q"}

\* the sessions hold clones of one Endpoint
InitEndpoint ==
    /\ epQueue = <<>>
    /\ epSess = [s \in EpPeers |-> "idle"]
    /\ epIgnored = {}
    /\ epArrivals = 0

\* connect() of the session for peer s starts accept_peer
EpStart(s) ==
    /\ epSess[s] = "idle"
    /\ epSess' = [epSess EXCEPT ![s] = "punching"]
    /\ UNCHANGED <<epQueue, epIgnored, epArrivals>>

\* peer p begins a connection to the endpoint, or begins one again after
\* its last was left unanswered
EpArrive(p) ==
    /\ epArrivals < MaxArrivals
    /\ epArrivals' = epArrivals + 1
    /\ epQueue' = Append(epQueue, p)
    /\ UNCHANGED <<epSess, epIgnored>>

\* accept_peer: incoming.remote_address() == self.peer_addr
FromMyPeer(s, from) == from = s

\* accept_peer of the session for peer s: endpoint.accept() yields the
\* next incoming connection to this session; it is accepted when it comes
\* from the session's peer and ignored otherwise
EpAccept(s) ==
    /\ epSess[s] = "punching"
    /\ epQueue # <<>>
    /\ epQueue' = Tail(epQueue)
    /\ IF FromMyPeer(s, Head(epQueue))
       THEN /\ epSess' = [epSess EXCEPT ![s] = "accepted"]
            /\ UNCHANGED epIgnored
       ELSE /\ epIgnored' = epIgnored \cup {<<s, Head(epQueue)>>}
            /\ UNCHANGED epSess
    /\ UNCHANGED epArrivals

----------------------------------------------------------------------------
(* The controller's handling of file invites (p2p-chat/src/controller.rs,  *)
(* with the selection of p2p-chat/src/friendsview.rs).                     *)

\* Bound: the GetFile commands sent
MaxRequests == 2

\* the friends of the user, as FriendsView::users lists them
Friends == <<"A", "B", "C">>
FriendKeys == {Friends[i] : i \in 1..Len(Friends)}

\* FriendsView::new selects users.first(); AppController::new has no
\* pending download
InitInvite ==
    /\ selected_user = Some(Friends[1])
    /\ pending_download = None
    /\ file_requests = <<>>

\* Tui::get_current_user
get_current_user == selected_user[1]

\* FriendsViewAction::SelectCurrentUser on the row of friend f
select_current_user(f) ==
    /\ selected_user' = Some(f)
    /\ UNCHANGED <<pending_download, file_requests>>

\* ConnManagerHandle::send(to, PeerCommand::GetFile): the command goes to
\* the peer session of friend to
ConnManagerSend(to) ==
    file_requests' =
        Append(file_requests,
               [to |-> to,
                author |-> IF pending_download' = None THEN None
                           ELSE Some(pending_download'[1].author)])

\* get_file
get_file == ConnManagerSend(get_current_user)

\* receive_message of a UserMessage of author a that carries a FileMeta,
\* and receive_invite: the invite becomes the pending download, and for an
\* image the DownloadFile action it returns is executed at once
receive_invite(a, image) ==
    /\ pending_download' = Some([author |-> a, image |-> image])
    /\ IF image
       THEN /\ Len(file_requests) < MaxRequests
            /\ get_file
       ELSE UNCHANGED file_requests
    /\ UNCHANGED selected_user

\* the user's /accept: parse_cmd gives AppAction::DownloadFile
AcceptCommand ==
    /\ Len(file_requests) < MaxRequests
    /\ UNCHANGED <<selected_user, pending_download>>
    /\ get_file

----------------------------------------------------------------------------
(* Specifications: the relay, the codecs and the handshake builders are   *)
(* explored apart, each with the state of the others at rest.             *)

Init ==
    /\ InitRelay /\ InitCodec /\ InitNames /\ InitFile /\ InitPeer /\ InitConn
    /\ InitLocks
    /\ InitActors
    /\ InitEndpoint
    /\ InitInvite

NextRelay ==
    \/ \E c \in Conns, id \in Keys :
         MainAccept(c, id) /\ UNCHANGED exceptRelay
    \/ \E c \in Conns, msg \in RelayRequest :
         ClientSend(c, msg) /\ UNCHANGED exceptRelay
    \/ \E c \in Conns : ClientClose(c) /\ UNCHANGED exceptRelay
    \/ \E c \in Conns : ClientRecv(c) /\ UNCHANGED exceptRelay
    \/ \E c \in Conns : ConnLost(c) /\ UNCHANGED exceptRelay
    \/ \E c \in Conns :
         ProcessRegister(c) /\ UNCHANGED exceptRelay
    \/ \E c \in Conns :
         ProcessGetUser(c) /\ UNCHANGED exceptRelay
    \/ \E c \in Conns :
         JoinSendUserAddress(c) /\ UNCHANGED exceptRelay
    \/ \E c \in Conns : JoinNotify(c) /\ UNCHANGED exceptRelay
    \/ \E c \in Conns : ProcessAck(c) /\ UNCHANGED exceptRelay
    \/ \E c \in Conns : ProcessBye(c) /\ UNCHANGED exceptRelay
    \/ \E c \in Conns :
         ProcessNotify(c) /\ UNCHANGED exceptRelay

NextCodec ==
    \/ \E codec \in {"chunked", "record"} :
         FramedNew(codec) /\ UNCHANGED exceptCodec
    \/ \E len \in PayloadLens :
         Encode(len) /\ UNCHANGED exceptCodec
    \/ \E to \in CutPoints(wire) :
         Arrive(to) /\ UNCHANGED exceptCodec
    \/ \E i \in 1..Len(wire) :
         Tamper(i) /\ UNCHANGED exceptCodec
    \/ Decode /\ UNCHANGED exceptCodec

NextForge ==
    \/ \E codec \in {"chunked", "record"} :
         FramedNew(codec) /\ UNCHANGED exceptCodec
    \/ \E len \in PayloadLens :
         Encode(len) /\ UNCHANGED exceptCodec
    \/ \E to \in CutPoints(wire) :
         Arrive(to) /\ UNCHANGED exceptCodec
    \/ \E i \in 1..Len(wire) :
         Tamper(i) /\ UNCHANGED exceptCodec
    \/ \E i \in 1..(Len(wire) + 1) :
         Inject(i) /\ UNCHANGED exceptCodec
    \/ Decode /\ UNCHANGED exceptCodec

SpecForge == Init /\ [][NextForge]_vars

NextNames ==
    \/ \E s \in Sides, t \in NoiseSelfType :
         set_my_type(s, t) /\ UNCHANGED exceptNames
    \/ \E s \in Sides, t \in NoisePeerType :
         set_peer_type(s, t) /\ UNCHANGED exceptNames
    \/ build_as_initiator /\ UNCHANGED exceptNames
    \/ build_as_responder /\ UNCHANGED exceptNames

NextFile ==
    \/ \E c \in Contents : FileChange(c) /\ UNCHANGED exceptFile
    \/ (\E openable \in BOOLEAN : HolderShareFile(openable))
         /\ UNCHANGED exceptFile
    \/ HolderSend /\ UNCHANGED exceptFile
    \/ PeerGimmeFile /\ UNCHANGED exceptFile
    \/ HolderUpload /\ UNCHANGED exceptFile
    \/ ReceiverPacket /\ UNCHANGED exceptFile
    \/ ReceiverGetFile /\ UNCHANGED exceptFile
    \/ (\E kind \in EndKinds : HolderStreamEnd(kind)) /\ UNCHANGED exceptFile
    \/ ReceiverCopy /\ UNCHANGED exceptFile
    \/ ReceiverCopyEnd /\ UNCHANGED exceptFile
    \/ ReceiverCopyDone /\ UNCHANGED exceptFile

SpecRelay == Init /\ [][NextRelay]_vars

SpecCodec == Init /\ [][NextCodec]_vars

SpecNames == Init /\ [][NextNames]_vars

SpecFile == Init /\ [][NextFile]_vars

NextPeer ==
    \/ (\E r \in Roles : Submit(r)) /\ UNCHANGED exceptPeer
    \/ (\E r \in Roles : Cancel(r)) /\ UNCHANGED exceptPeer
    \/ (\E r \in Roles : RunStart(r)) /\ UNCHANGED exceptPeer
    \/ (\E r \in Roles : StrangerConnect(r)) /\ UNCHANGED exceptPeer
    \/ (\E r \in Roles : AcceptPeer(r)) /\ UNCHANGED exceptPeer
    \/ (\E r \in Roles : ConnectToPeer(r)) /\ UNCHANGED exceptPeer
    \/ (\E r \in Roles : ConnectTimeout(r)) /\ UNCHANGED exceptPeer
    \/ (\E r \in Roles : PunchDone(r)) /\ UNCHANGED exceptPeer
    \/ (\E r \in Roles : AcceptBi(r)) /\ UNCHANGED exceptPeer
    \/ (\E r \in Roles : HandshakeWrite(r)) /\ UNCHANGED exceptPeer
    \/ (\E r \in Roles, k \in 0..MaxCmds : HandshakeRead(r, k))
         /\ UNCHANGED exceptPeer
    \/ (\E r \in Roles : HandshakeTruncated(r)) /\ UNCHANGED exceptPeer
    \/ (\E r \in Roles : ReadyRecv(r)) /\ UNCHANGED exceptPeer
    \/ (\E r \in Roles : ReadyInboundEnd(r)) /\ UNCHANGED exceptPeer
    \/ (\E r \in Roles : ReadyCmd(r)) /\ UNCHANGED exceptPeer
    \/ (\E r \in Roles : ReadyCancel(r)) /\ UNCHANGED exceptPeer
    \/ (\E c \in QConns : QuicLost(c)) /\ UNCHANGED exceptPeer

SpecPeer == Init /\ [][NextPeer]_vars

NextConn ==
    \/ (\E i \in ConnInstructions : Instruct(i)) /\ UNCHANGED exceptConn
    \/ CancelClient /\ UNCHANGED exceptConn
    \/ RelayDown /\ UNCHANGED exceptConn
    \/ ConnectRelay /\ UNCHANGED exceptConn
    \/ UpgradeRelayConnection /\ UNCHANGED exceptConn
    \/ RecvInstruction /\ UNCHANGED exceptConn
    \/ (\E found \in BOOLEAN : RelayReply(found)) /\ UNCHANGED exceptConn
    \/ (\E k \in 1..NPeerKeys : RelayPush(k)) /\ UNCHANGED exceptConn
    \/ AwaitReply /\ UNCHANGED exceptConn
    \/ ConnCancelled /\ UNCHANGED exceptConn

SpecConn == Init /\ [][NextConn]_vars

NextLocks ==
    \/ (\E t \in LockTasks, arm \in Arms : LkSelect(t, arm))
         /\ UNCHANGED exceptLocks
    \/ (\E t \in LockTasks : LkAcquire(t)) /\ UNCHANGED exceptLocks
    \/ (\E t \in LockTasks, found \in BOOLEAN : LkMapOp(t, found))
         /\ UNCHANGED exceptLocks
    \/ (\E t \in LockTasks : LkRelease(t)) /\ UNCHANGED exceptLocks
    \/ (\E t \in LockTasks : LkSuspend(t)) /\ UNCHANGED exceptLocks
    \/ (\E t \in LockTasks, ok \in BOOLEAN : LkResume(t, ok))
         /\ UNCHANGED exceptLocks
    \/ LkSpawn /\ UNCHANGED exceptLocks
    \/ (\E t \in LockTasks : LkBreak(t)) /\ UNCHANGED exceptLocks
    \/ (\E t \in LockTasks : LkLoop(t)) /\ UNCHANGED exceptLocks

SpecLocks == Init /\ [][NextLocks]_vars

NextActors ==
    \/ (\E ev \in AppEvents : EvmInput(ev)) /\ UNCHANGED exceptActors
    \/ EvmRecv /\ UNCHANGED exceptActors
    \/ EvmSend /\ UNCHANGED exceptActors
    \/ (\E cmd \in {None} \cup {Some(c) : c \in PeerCommands} : CtlRecv(cmd))
         /\ UNCHANGED exceptActors
    \/ ControllerSend /\ UNCHANGED exceptActors
    \/ SessReady /\ UNCHANGED exceptActors
    \/ SessPacket /\ UNCHANGED exceptActors
    \/ SessCommand /\ UNCHANGED exceptActors
    \/ SessSend /\ UNCHANGED exceptActors

SpecActors == Init /\ [][NextActors]_vars

NextEndpoint ==
    \/ (\E s \in EpPeers : EpStart(s)) /\ UNCHANGED exceptEndpoint
    \/ (\E p \in EpPeers : EpArrive(p)) /\ UNCHANGED exceptEndpoint
    \/ (\E s \in EpPeers : EpAccept(s)) /\ UNCHANGED exceptEndpoint

SpecEndpoint == Init /\ [][NextEndpoint]_vars

NextInvite ==
    \/ (\E f \in FriendKeys : select_current_user(f))
         /\ UNCHANGED exceptInvite
    \/ (\E a \in FriendKeys, image \in BOOLEAN : receive_invite(a, image))
         /\ UNCHANGED exceptInvite
    \/ AcceptCommand /\ UNCHANGED exceptInvite

SpecInvite == Init /\ [][NextInvite]_vars

\* The two sessions on a network that loses nothing, with neither token
\* cancelled: every step either session task can take is eventually taken
\* (the tokio scheduler runs every task that is ready).
NextPeerOk ==
    \/ (\E r \in Roles : Submit(r)) /\ UNCHANGED exceptPeer
    \/ (\E r \in Roles : RunStart(r)) /\ UNCHANGED exceptPeer
    \/ (\E r \in Roles : AcceptPeer(r)) /\ UNCHANGED exceptPeer
    \/ (\E r \in Roles : ConnectToPeer(r)) /\ UNCHANGED exceptPeer
    \/ (\E r \in Roles : PunchDone(r)) /\ UNCHANGED exceptPeer
    \/ (\E r \in Roles : AcceptBi(r)) /\ UNCHANGED exceptPeer
    \/ (\E r \in Roles : HandshakeWrite(r)) /\ UNCHANGED exceptPeer
    \/ (\E r \in Roles, k \in 0..MaxCmds : HandshakeRead(r, k))
         /\ UNCHANGED exceptPeer
    \/ (\E r \in Roles : ReadyRecv(r)) /\ UNCHANGED exceptPeer
    \/ (\E r \in Roles : ReadyCmd(r)) /\ UNCHANGED exceptPeer

\* a step of the session task of role r
TaskStep(r) ==
    \/ RunStart(r) \/ AcceptPeer(r) \/ ConnectToPeer(r) \/ PunchDone(r)
    \/ AcceptBi(r) \/ HandshakeWrite(r)
    \/ (\E k \in 0..MaxCmds : HandshakeRead(r, k))
    \/ ReadyRecv(r) \/ ReadyCmd(r)

SpecPeerFair ==
    /\ Init
    /\ [][NextPeerOk]_vars
    /\ \A r \in Roles : WF_vars(TaskStep(r) /\ UNCHANGED exceptPeer)

------
(* Claims about the relay, checked under SpecRelay *)

\* the session task of c takes a request of the given type off its stream
TakesStep(c, type) ==
    /\ pc[c] = "loop"
    /\ inbox[c] # <<>>
    /\ Head(inbox[c]).type = type
    /\ inbox'[c] = Tail(inbox[c])

\* the connection's client can still be reached by its session task
Live(c) == pc[c] \in {"loop", "join"} /\ clientOpen[c]

(* C1: a Register(identity_key) whose X25519 conversion differs from the    *)
(* static key seen in the connection's handshake is rejected: the session   *)
(* is closed, no Ack is sent, and afterwards the registry holds no entry    *)
(* mapping identity_key to the connection's endpoint.                       *)
C1_SpoofedRegisterRejected ==
    [][\A c \in Conns :
         (/\ TakesStep(c, "Register")
          /\ ed25519_verifying_to_x25519(Head(inbox[c]).key) # hsStatic[c])
         => /\ pc'[c] \in {"closed", "failed", "panicked"}
            /\ outbox'[c] = outbox[c]
            /\ <<Head(inbox[c]).key, Addr(c)>> \notin conn_db']_vars

(* C2: after any sequence of Register operations from any connections the   *)
(* registry maps each identity key to exactly one endpoint, the endpoint of *)
(* the connection that registered the key most recently; a key nobody       *)
(* registered has no entry.                                                 *)
C2_RegistrySingleton ==
    \A k \in Keys :
        {p \in conn_db : p[1] = k} =
            IF regHist[k] = <<>> THEN {} ELSE {<<k, Addr(regHist[k][1])>>}

\* a key registered on one connection and then on another: the entry is
\* the later connection's
C2_Witness ==
    \E k \in Keys :
        /\ Len(regHist[k]) = 2
        /\ regHist[k][1] # regHist[k][2]
        /\ <<k, Addr(regHist[k][1])>> \in conn_db

\* the session task of a takes a notification off its channel
NotifyStep(a) ==
    /\ pc[a] = "loop"
    /\ notify_rx[a] # <<>>
    /\ inbox'[a] = inbox[a]
    /\ \/ notify_rx'[a] = Tail(notify_rx[a])
       \/ pc'[a] \in {"failed", "panicked"}

(* C3: if the registry maps identity A to the endpoint of a connected       *)
(* client a and identity B to the endpoint of client b, then b's GetUser(A) *)
(* makes the relay send UserAddress(Some(addr_a)) to b and push             *)
(* AwaitConnection(B, addr_b) to a: the pushed key is the caller's          *)
(* registered identity and the pushed endpoint the caller's endpoint.       *)
C3_Rendezvous ==
    [][\A a \in Conns : \A b \in Conns \ {a} : \A A \in Keys, B \in Keys :
         /\ (/\ TakesStep(b, "GetUser")
             /\ Head(inbox[b]).key = A
             /\ <<A, Addr(a)>> \in conn_db)
            => /\ pc'[b] = "join"
               /\ joinSt'[b][1].result = Some(Addr(a))
         /\ (/\ pc[b] = "join"
             /\ ~joinSt[b][1].replied
             /\ joinSt'[b][1].replied
             /\ clientOpen[b])
            => outbox'[b] = Append(outbox[b],
                   UserAddress(joinSt[b][1].result, joinSt[b][1].rid))
         /\ (/\ pc[b] = "join"
             /\ ~joinSt[b][1].notified
             /\ joinSt'[b][1].notified
             /\ joinSt[b][1].result = Some(Addr(a))
             /\ Live(a))
            => notify_rx'[a] = Append(notify_rx[a],
                   Call(Addr(b), joinSt[b][1].rid))
         /\ (/\ NotifyStep(a)
             /\ Head(notify_rx[a]).addr = Addr(b)
             /\ <<B, Addr(b)>> \in conn_db
             /\ Live(a))
            => outbox'[a] = Append(outbox[a],
                   AwaitConnection(B, Addr(b), Head(notify_rx[a]).rid))]_vars

\* the AwaitConnection of GetUser number rid has not reached callee a yet
PushPending(a, rid) ==
    \/ \E b \in Conns :
         pc[b] = "join" /\ joinSt[b][1].rid = rid /\ ~joinSt[b][1].notified
    \/ \E i \in 1..Len(notify_rx[a]) : notify_rx[a][i].rid = rid
    \/ \E i \in 1..Len(outbox[a]) :
         outbox[a][i].type = "AwaitConnection" /\ outbox[a][i].rid = rid

\* caller b reads the UserAddress(Some(addr_a)) of a GetUser from its stream
ReceivesUserAddress(b, a) ==
    /\ clientOpen[b]
    /\ clientOpen'[b]
    /\ outbox[b] # <<>>
    /\ outbox'[b] = Tail(outbox[b])
    /\ Head(outbox[b]).type = "UserAddress"
    /\ Head(outbox[b]).addr = Some(Addr(a))

C5_UnknownTargetAnswered ==
    [][\A c \in Conns :
         (/\ TakesStep(c, "GetUser")
          /\ HashMapGet(conn_db, Head(inbox[c]).key) = None)
         => /\ clientOpen[c] =>
                 /\ outbox'[c] # <<>>
                 /\ Last(outbox'[c]).type = "UserAddress"
                 /\ Last(outbox'[c]).addr = None
            /\ \A d \in Conns : d # c => outbox'[d] = outbox[d]
            /\ \A d \in Conns : d # c => notify_rx'[d] = notify_rx[d]
            /\ pc'[c] = "loop"]_vars

(* C6: when a client's relay session terminates, the registry entry the     *)
(* session created is removed: no entry points at the endpoint of a         *)
(* terminated session.                                                      *)
C6_EntryRemovedAtTeardown ==
    \A c \in Conns, k \in Keys :
        pc[c] \in {"closed", "failed", "panicked"}
        => <<k, Addr(c)>> \notin conn_db

\* no Register of connection c has been handled: the history of every key
\* is whole (at most one entry) and does not hold c
NeverRegistered(c) ==
    \A k \in Keys :
        Len(regHist[k]) <= 1 /\ (\A i \in 1..Len(regHist[k]) : regHist[k][i] # c)

(* C24: a GetUser taken from a session that has not registered ends that   *)
(* session; no UserAddress is sent to it and the handler does not go on to *)
(* notify the target, so no AwaitConnection is pushed on its behalf.       *)
C24_GetUserBeforeRegisterCloses ==
    [][\A c \in Conns :
         (TakesStep(c, "GetUser") /\ NeverRegistered(c))
         => /\ pc'[c] \in {"closed", "failed", "panicked"}
            /\ outbox'[c] = outbox[c]
            /\ joinSt'[c] = joinSt[c]]_vars

(* C25: when a key was registered on connection c1 and then on another     *)
(* connection c2, the end of c1's session leaves the entry key ->          *)
(* endpoint(c2) in the registry; and the end of any session removes no     *)
(* entry that points at another connection's endpoint.                     *)
C25_SuccessorEntryKept ==
    /\ [](\A k \in Keys :
            (/\ Len(regHist[k]) = 2
             /\ regHist[k][1] # regHist[k][2]
             /\ Terminated(regHist[k][2]))
            => HashMapGet(conn_db, k) = Some(Addr(regHist[k][1])))
    /\ [][\A c \in Conns :
            (~Terminated(c) /\ pc'[c] \in {"closed", "failed", "panicked"})
            => \A p \in conn_db : p[2] # Addr(c) => p \in conn_db']_vars

C25_Witness ==
    \E k \in Keys :
        /\ Len(regHist[k]) = 2
        /\ regHist[k][1] # regHist[k][2]
        /\ Terminated(regHist[k][2])
        /\ ~Terminated(regHist[k][1])
        /\ <<k, Addr(regHist[k][1])>> \in conn_db


----------------------------------------------------------------------------
(* Claims about the codecs, checked under SpecCodec *)

\* every ciphertext of the stream is as the encoder wrote it
Untampered == \A i \in 1..Len(wire) : wire[i].kind = "ct" => wire[i].good

\* the stream has arrived whole and the decoder has worked through it
Drained == arrived = TotalLen(wire) /\ ~readable

IsPrefix(p, q) == Len(p) <= Len(q) /\ p = SubSeq(q, 1, Len(p))

\* the ciphertexts among the items the decoder has consumed
ConsumedRecords == {i \in 1..(rdIdx - 1) : wire[i].kind = "ct"}

(* C7: whatever its length, a payload given to the encoder is encoded     *)
(* (the encoder does not fail on it), and once the bytes produced have     *)
(* arrived unaltered and been decoded, the payloads decoded are the        *)
(* payloads encoded, in order.                                             *)
C7_RoundTripEveryLength ==
    /\ encSt = "ok"
    /\ (decSt = "ok" /\ Drained /\ Untampered) => decoded = sent

(* C23: every chunk the chunked encoder hands to the record encoder fits   *)
(* a Noise message together with its 16-byte tag, so the record encoder    *)
(* never fails on a chunk, and every ciphertext on the wire is at most     *)
(* 65535 bytes long.                                                       *)
C23_ChunkPlusTagFits ==
    layer = "chunked" =>
        /\ encSt = "ok"
        /\ \A i \in 1..Len(wire) :
             wire[i].kind = "ct" => ItemLen(wire[i]) <= MaxMsgLen

(* C8: however the stream is split into reads, the decoder consumes only   *)
(* bytes that have arrived, yields only payloads that were encoded and in  *)
(* their order, has advanced the cipher state by exactly the records of    *)
(* the frames it has consumed, and with an incomplete frame in its buffer  *)
(* it has yielded nothing of that frame; once every byte has arrived and   *)
(* been worked through, the payloads decoded are the payloads encoded.     *)
C8_SegmentationTolerated ==
    decSt = "ok" =>
        /\ Offset(wire, rdIdx) <= arrived
        /\ IsPrefix(decoded, sent)
        /\ rxN = Cardinality(ConsumedRecords)
        /\ frState # None =>
             /\ wire[rdIdx - 1].kind = IF layer = "chunked" THEN "head32"
                                       ELSE "head16"
             /\ frState = Some(wire[rdIdx - 1].n)
             /\ ~FrameReady(Avail, frState[1]) \/ readable
        /\ Drained => decoded = sent

\* the first payload has been decoded, and part of the second frame waits
\* in the buffer for the bytes that complete it
C8_Witness ==
    /\ decSt = "ok"
    /\ Len(decoded) = 1
    /\ Len(sent) = 2
    /\ frState # None
    /\ Avail > 0
    /\ ~readable

\* decode is called and the frame at the front of its buffer is complete
\* and holds a record that does not decrypt
DecodeBadRecord ==
    /\ decSt = "ok"
    /\ readable
    /\ Framing.frame
    /\ ~DecodeRecords(FrameRecords, rxN, <<>>).ok
    /\ UNCHANGED <<wire, arrived, encSt, layer>>

(* C9: a decode call that meets a record that does not decrypt returns an  *)
(* I/O error value to its caller, yields no plaintext, and the task that   *)
(* owns the codec goes on to tear its session down (it does not die in     *)
(* the call).                                                              *)
C9_BadRecordIsIoError ==
    [][DecodeBadRecord =>
         /\ decRes' = "error"
         /\ decoded' = decoded
         /\ decSt' # "panicked"]_vars

----------------------------------------------------------------------------
(* Claims about the protocol names, checked under SpecNames *)

\* the names both sides have built with
Built(s) == protocol[s] # None
NameOf(s) == protocol[s][1]
TypesOf(s) == <<builder[s].my_type.tag, builder[s].peer_type.tag>>

(* C10: the initiator's protocol name is Noise_<my_type><peer_type> and    *)
(* the responder's is Noise_<peer_type><my_type>, each followed by         *)
(* _25519_ChaChaPoly_BLAKE2b; two sides configured as mirror images build  *)
(* the same name; a client (I, K) and the relay (K, I) both build          *)
(* Noise_IK, and two peers (K, K) both build Noise_KK.                     *)
C10_ProtocolNames ==
    /\ Built("initiator") =>
         NameOf("initiator") =
             <<"Noise_", builder["initiator"].my_type.tag,
               builder["initiator"].peer_type.tag,
               "_25519_ChaChaPoly_BLAKE2b">>
    /\ Built("responder") =>
         NameOf("responder") =
             <<"Noise_", builder["responder"].peer_type.tag,
               builder["responder"].my_type.tag,
               "_25519_ChaChaPoly_BLAKE2b">>
    /\ (Built("initiator") /\ Built("responder")) =>
         /\ (TypesOf("initiator") = <<TypesOf("responder")[2],
                                      TypesOf("responder")[1]>>)
              => NameOf("initiator") = NameOf("responder")
         /\ (TypesOf("initiator") = <<"I", "K">>
               /\ TypesOf("responder") = <<"K", "I">>)
              => /\ NameOf("initiator")
                      = <<"Noise_", "I", "K", "_25519_ChaChaPoly_BLAKE2b">>
                 /\ NameOf("responder")
                      = <<"Noise_", "I", "K", "_25519_ChaChaPoly_BLAKE2b">>
         /\ (TypesOf("initiator") = <<"K", "K">>
               /\ TypesOf("responder") = <<"K", "K">>)
              => /\ NameOf("initiator")
                      = <<"Noise_", "K", "K", "_25519_ChaChaPoly_BLAKE2b">>
                 /\ NameOf("responder")
                      = <<"Noise_", "K", "K", "_25519_ChaChaPoly_BLAKE2b">>

\* the client and the relay have both built their handshake
C10_Witness ==
    /\ Built("initiator")
    /\ Built("responder")
    /\ TypesOf("initiator") = <<"I", "K">>
    /\ TypesOf("responder") = <<"K", "I">>


----------------------------------------------------------------------------
(* Claims about file transfer, checked under SpecFile *)

\* download_file reports to the UI
ReportsDownload == ui' # ui /\ rpc = "copying" /\ rpc' = "loop"

(* C11: a download is reported as successful (DownloadedFile goes towards  *)
(* the UI) only if the BLAKE3 digest of the bytes written to disk equals   *)
(* the digest of the descriptor that announced the file; on a mismatch an  *)
(* error is reported in its place.                                         *)
C11_DownloadVerified ==
    [][ReportsDownload =>
         IF Blake3(rFile[1]) = recv_invite[1].hash
         THEN Last(ui') = "DownloadedFile"
         ELSE Last(ui') # "DownloadedFile"]_vars

(* C12: for one transfer the holder writes exactly the announced size      *)
(* bytes of raw data and the receiver consumes exactly that many before it *)
(* resumes typed decoding, so the typed decoding of either side never      *)
(* meets bytes that are no packet, also when the file changed length       *)
(* after it was announced.                                                 *)
C12_ExactlyAnnouncedSize ==
    /\ [][upl' # upl => Last(upl').written = Last(upl').size]_vars
    /\ [][ReportsDownload => taken = recv_invite[1].size]_vars
    /\ [](rpc # "desync")

\* the copy of download_file takes one more byte as content of the file
TakesFileByte == rpc = "copying" /\ taken' = taken + 1

(* C27: from the moment the receiver has sent its file request until it    *)
(* has read the announced number of bytes, every byte it takes as file     *)
(* content is a byte of the holder's file, whatever typed packets (a Send, *)
(* a Share) the holder has put on the stream in between.                   *)
C27_OnlyFileBytesTaken ==
    [][TakesFileByte => h2r[1].k = "raw"]_vars

\* the copy of download_file ends before the announced number of bytes
CopyEndsShort ==
    /\ rpc = "copying"
    /\ rpc' # "copying"
    /\ taken < recv_invite[1].size

(* C28: when the stream fails or closes before the announced number of     *)
(* bytes has been received, the transfer is abandoned: download_file ends  *)
(* with an error and no DownloadedFile goes towards the UI.                *)
C28_ShortStreamAbandoned ==
    [][CopyEndsShort => (rpc' = "failed" /\ ui' = ui)]_vars

\* a command of the user that cannot be carried out: GetFile while no
\* invite is pending, ShareFile of a path that cannot be opened
UserInputError ==
    \/ ReceiverGetFile /\ recv_invite = None
    \/ HolderShareFile(FALSE)

(* C29: an input error of the user (GetFile with no invite pending, or     *)
(* ShareFile of a path that cannot be opened) leaves the state of the      *)
(* session unchanged: the session task stays in its loop, it is not torn   *)
(* down, and its invites are as before.                                    *)
C29_UserErrorKeepsSession ==
    [][UserInputError =>
         UNCHANGED <<hpc, rpc, sent_invite, recv_invite, h2r, r2h>>]_vars

----------------------------------------------------------------------------
(* Claims about the peer sessions.                                         *)

\* the session of role r holds a stream
HasStream(r) == sess[r] \in {"stream", "handshake", "ready"}

(* C13: in the punching phase a session runs accept_peer and               *)
(* connect_to_peer together and afterwards uses exactly one of the two     *)
(* connections, picked by its role: the Initiator opens the stream on the  *)
(* connection it began, the Responder accepts the stream on the connection *)
(* it accepted, so the stream the Responder has accepted is one the        *)
(* Initiator opened on a connection the Initiator began.                   *)
C13_OneConnectionByRole ==
    /\ \A r \in Roles :
         HasStream(r) =>
            /\ incoming[r] # None /\ outgoing[r] # None
            /\ streamOn[r] = ChosenConn(r)
            /\ streamOn[r][1][1] = "Initiator"
    /\ HasStream("Initiator") =>
         streamOn["Initiator"] = outgoing["Initiator"]
    /\ sess["Responder"] \in {"handshake", "ready"} =>
         /\ streamOn["Responder"] = incoming["Responder"]
         /\ streamOn["Responder"][1] \in opened
    /\ \A c \in opened : c[1] = "Initiator"

C13_Witness ==
    /\ \A r \in Roles : sess[r] = "ready"
    /\ streamOn["Initiator"] = Some(<<"Initiator", 1>>)
    /\ streamOn["Responder"] = Some(<<"Initiator", 1>>)
    /\ incoming["Initiator"] = Some(<<"Responder", 1>>)

\* the Sends a sequence of the history holds
Range(q) == {q[j] : j \in 1..Len(q)}

BothPunching == \A r \in Roles : sess[r] = "punching"
BothReady == \A r \in Roles : sess[r] = "ready"

(* C14: when both sessions have begun punching, both eventually finish the *)
(* handshake and are READY together; and every Send submitted, on either   *)
(* side, while both are READY is eventually passed to the inbound channel  *)
(* of the other side.                                                      *)
C14_ReadyThenDelivered ==
    /\ BothPunching ~> BothReady
    /\ \A n \in 1..MaxCmds :
         (n \in late) ~> (\E r \in Roles : n \in Range(delivered[r]))

\* the session task of role r meets a fatal failure of its attempt: the
\* attempt ends otherwise than by cancellation, or the inbound stream is
\* seen to have ended
MeetsFailure(r) ==
    /\ sess[r] \in Active
    /\ \/ sess'[r] \notin Active \cup {"returned"}
       \/ ~nextDisabled[r] /\ nextDisabled'[r]

(* C16: every fatal failure of a session attempt, in any of its phases     *)
(* (punching, awaiting the stream, handshake, READY), ends the attempt and *)
(* takes the supervisor to its 3-second backoff, from which it starts the  *)
(* next attempt.                                                           *)
C16_FailureLeadsToBackoff ==
    [][\A r \in Roles : MeetsFailure(r) => sess'[r] = "backoff"]_vars

\* the Sends of a history appear in the order of their submission
InSubmissionOrder(q) == \A i, j \in 1..Len(q) : i < j => q[i] < q[j]

StartsAttempt(r) == sess[r] # "punching" /\ sess'[r] = "punching"

(* C19: once the client's token is cancelled, its session task starts no   *)
(* new connection attempt, wherever the cancellation found it (connecting, *)
(* READY, or asleep in the supervisor's backoff).                          *)
C19_NoAttemptAfterCancel ==
    [][\A r \in Roles : cancelled[r] => ~StartsAttempt(r)]_vars

----------------------------------------------------------------------------
(* Claims about the connection manager.                                    *)

\* run() ends otherwise than by cancellation: the relay was unreachable or
\* the relay session failed
RelaySessionFails == cm \in ConnRunning /\ cm' \notin ConnRunning \cup {"returned"}

(* C15: whenever the relay is unreachable or the relay session fails, the  *)
(* connection manager reports ServerOffline and goes to its backoff wait   *)
(* (from which it reports Connecting and connects again); its task does    *)
(* not end with the failure.                                               *)
C15_ReconnectAfterFailure ==
    [][RelaySessionFails =>
         /\ cm' = "backoff"
         /\ cmStatus' = Append(cmStatus, "ServerOffline")]_vars

(* C20: the first request the client sends on its relay session is        *)
(* Register, and it sends no GetUser before the relay's Ack to that        *)
(* Register has come in.                                                   *)
C20_RegisterBeforeGetUser ==
    /\ cmOut # <<>> => cmOut[1].t = "Register"
    /\ (\E i \in 1..Len(cmOut) : cmOut[i].t = "GetUser") =>
          \E j \in 1..Len(cmGot) : cmGot[j].t = "Ack"

\* the connection manager takes a relay message where it awaits the reply
\* to its GetUser
TakesAsReply == cm = "awaiting" /\ cm' = "loop"

(* C21: whatever the order in which the relay's pushes and replies come    *)
(* in, the message the connection manager takes as the reply to a GetUser  *)
(* is the UserAddress that answers that GetUser; an AwaitConnection that   *)
(* comes in while a reply is awaited is not taken for the reply.           *)
C21_ReplyPairedWithRequest ==
    [][TakesAsReply =>
         /\ Head(cmIn).t = "UserAddress"
         /\ Head(cmIn).rid = Len(cmOut)]_vars

\* the relay message the connection manager takes in this step, if any
Taken == IF Len(cmGot') > Len(cmGot) THEN Some(Last(cmGot')) ELSE None

PeerSession(role, key) == [role |-> role, key |-> key]

(* C22: on a UserAddress(Some(endpoint)) reply the connection manager      *)
(* creates a peer session in Initiator role for the target it asked for,   *)
(* and on an AwaitConnection(peer, endpoint) push it creates a peer        *)
(* session in Responder role for that peer.                                *)
C22_SessionPerRendezvous ==
    [][Taken # None =>
         /\ (Taken[1].t = "UserAddress" /\ Taken[1].found) =>
               PeerSession("Initiator", Taken[1].key) \in cmPeers'
         /\ Taken[1].t = "AwaitConnection" =>
               PeerSession("Responder", Taken[1].key) \in cmPeers']_vars

\* a connection a third party began
FromStranger(c) == c[1] \notin Roles

\* the connection behind an Option<Connection> of the session, if any
Held(o) == IF o = None \/ o = Some(Err) THEN {} ELSE {o[1]}

(* C26: while it is punching, a session accepts an inbound QUIC connection *)
(* only if the connection's remote address equals the peer's endpoint: the *)
(* result of accept_peer is a connection the peer began, no connection of  *)
(* another origin is ever established or becomes the connection whose      *)
(* stream the session uses, and a turn of accept_peer that meets such a    *)
(* connection leaves the result of accept_peer empty.                      *)
C26_OnlyPeerAccepted ==
    /\ [](\A r \in Roles :
            /\ \A c \in Held(incoming[r]) : c[1] = Peer(r)
            /\ \A c \in Held(streamOn[r]) : ~FromStranger(c))
    /\ [](\A c \in alive : ~FromStranger(c))
    /\ [][\A c \in ignored' \ ignored : incoming' = incoming]_vars

\* a session has ignored a third party's connection and has, in the same
\* attempt, accepted the connection of its peer
C26_Witness ==
    \E r \in Roles :
        /\ StrangerConn(r) \in ignored
        /\ attempt[r] = 1
        /\ Held(incoming[r]) # {}
        /\ sess[r] = "ready"

----------------------------------------------------------------------------
(* Claims about the relay's mutexes, checked under SpecLocks *)

\* the task is at a suspension point
Suspended(t) == lkMode[t] \in {"suspended", "select"}

(* C30: the relay's registry lock and its notification-registry lock are   *)
(* held only for a single insert or lookup and are released before any     *)
(* suspension point: no task that awaits holds a guard, and a task that    *)
(* holds a guard has done at most one map operation under it.              *)
C30_NoGuardAcrossAwait ==
    \A l \in Locks :
        lkOwner[l] # None =>
            /\ ~Suspended(lkOwner[l][1])
            /\ lkOps[lkOwner[l][1]] <= 1

\* a session awaits the send of its Ack after a Register while another
\* task holds the registry's guard
C30_Witness ==
    \E t, u \in LockTasks :
        /\ t # u
        /\ lkCode[t] = RegisterArm
        /\ lkMode[t] = "suspended"
        /\ lkOwner["conn_db"] = Some(u)
        /\ lkOps[u] = 1

----------------------------------------------------------------------------
(* Claims about the switch from handshake to transport mode, checked under *)
(* SpecPeer                                                                *)

\* handshake() of role r reads a handshake message in this step
ReadsHandshakeMessage(r) ==
    /\ sess[r] = "handshake"
    /\ ~IsMyTurn(r)
    /\ hsStep'[r] = hsStep[r] + 1

(* C31: no bytes are lost at the switch from handshake to transport mode:  *)
(* a read of a handshake message takes that message off the stream and     *)
(* nothing else, so every record that arrived behind it, also in the same  *)
(* read, is still there, in order, for the transport-mode decoder.         *)
C31_NothingLostAtSwitch ==
    [][\A r \in Roles :
         ReadsHandshakeMessage(r) =>
             net'[streamOn[r][1], r] = Tail(net[streamOn[r][1], r])]_vars

----------------------------------------------------------------------------
(* Claims about failures at the relay, checked under SpecLocks *)

\* an awaited step of task t ends with an error that panics the task: the
\* connection of a client fails to establish (in main), or the stream
\* accept or the handshake of a client fails (in its session task)
FailedAwait(t) == lkMode[t] = "suspended" /\ lkMode'[t] = "panicked"

(* C32: a failure confined to one client (an incoming QUIC connection that *)
(* fails to establish, a failed accept of the bidirectional stream, a      *)
(* failed Noise handshake) never stops the accept loop of the relay: the   *)
(* task of main is not ended by it.                                        *)
C32_AcceptLoopSurvives ==
    [][(\E t \in LockTasks : FailedAwait(t)) => lkMode'[0] # "panicked"]_vars

----------------------------------------------------------------------------
(* Further claims about the relay, checked under SpecRelay *)

\* the session task of a, whose client is connected, takes a notification
\* that the GetUser of another client has caused
ForwardsForOther(a) ==
    /\ NotifyStep(a)
    /\ clientOpen[a]
    /\ Head(notify_rx[a]).addr # Addr(a)

(* C33: no request sent by one client terminates the relay session of      *)
(* another: the session of A that forwards the notification caused by      *)
(* another client's GetUser(A) is still in its loop afterwards, also when   *)
(* the caller never registered or its entry no longer points at its        *)
(* endpoint.                                                               *)
C33_ForwardingKeepsSession ==
    [][\A a \in Conns : ForwardsForOther(a) => pc'[a] = "loop"]_vars

\* the session the join! of c is to notify
Callee(c) == HashMapGet(notify_db, joinSt[c][1].result[1])[1]

\* the session task of c waits in its join! for room in the notification
\* channel of a live session
WaitsForRoom(c) ==
    /\ pc[c] = "join"
    /\ ~joinSt[c][1].notified
    /\ ~Terminated(Callee(c))
    /\ Len(notify_rx[Callee(c)]) >= NotifyCapacity

\* session tasks that wait for room in channels that only they can drain
WaitOnEachOther(S) ==
    /\ S # {}
    /\ \A c \in S : WaitsForRoom(c) /\ Callee(c) \in S

(* C34: with bounded notification channels the relay never reaches a state *)
(* in which session tasks wait on each other forever: there is no set of   *)
(* session tasks each of which waits, inside its join!, for room in the    *)
(* full notification channel of a task of the set (a task inside its join! *)
(* does not take from its own channel).                                    *)
C34_NoCircularWait ==
    \A S \in SUBSET Conns : ~WaitOnEachOther(S)

----------------------------------------------------------------------------
(* Claims about the client's actors, checked under SpecActors *)

\* every actor of the cycle waits to send into a full channel
AllBlocked ==
    /\ acCtl # None /\ ~HasRoom(chCmd)
    /\ acPeer # None /\ ~HasRoom(chMsg)
    /\ acEvm # None /\ ~HasRoom(chEvt)

(* C35: the client's cycle of actors over bounded channels (controller,    *)
(* command channel, peer session, ConnMessage channel, event manager,      *)
(* event channel, controller) never reaches a state in which every actor   *)
(* of the cycle is blocked sending into a full channel.                    *)
C35_CycleNeverBlocked == ~AllBlocked

----------------------------------------------------------------------------
(* Claims about the shared endpoint, checked under SpecEndpoint *)

\* the session for peer s takes the next incoming connection and ignores it
Ignores(s) == epSess[s] = "punching" /\ epIgnored' # epIgnored /\
              <<s, Head(epQueue)>> \in epIgnored'

(* C36: when two peer sessions punch at once on the shared endpoint, an    *)
(* incoming connection from the address of peer P is never taken and       *)
(* ignored by the session for another peer Q while the session for P       *)
(* waits for it.                                                           *)
C36_NotIgnoredByOtherSession ==
    [][\A s \in EpPeers :
         (Ignores(s) /\ epSess[Head(epQueue)] = "punching")
         => FromMyPeer(s, Head(epQueue))]_vars

----------------------------------------------------------------------------
(* Claims about the commands of a peer session across a reconnect, checked *)
(* under SpecPeer                                                          *)

\* the command n waits in the command channel of a session
Queued(n) == \E r \in Roles : \E i \in 1..Len(cmds[r]) : cmds[r][i] = n

\* the command n has been written to the stream of a session
Transmitted(n) ==
    \E r \in Roles : \E i \in 1..Len(sentLog[r]) : sentLog[r][i] = n

(* C37: across a failure and a reconnect of a peer session no Send command *)
(* that was accepted into the command channel is lost: every accepted      *)
(* command, the one whose transmission hit the failure included, either    *)
(* still waits in the channel or has been transmitted.                     *)
C37_NoCommandLost == \A n \in 1..nCmds : Queued(n) \/ Transmitted(n)

----------------------------------------------------------------------------
(* Claims about forged bytes, checked under SpecForge *)

\* decode yields a logical message
Yields == Len(decoded') > Len(decoded)

\* the records of the frame at the front of the decoder's buffer
RecordsOfFrame == {i \in 1..Len(FrameRecords) : FrameRecords[i].kind = "ct"}

(* C38: every logical message the chunked decoder yields consists only of  *)
(* plaintext of records that passed AEAD decryption, and a message is      *)
(* yielded only when at least one such record was in the frame: bytes      *)
(* written by someone without the session key never produce a message.     *)
C38_YieldsOnlyDecrypted ==
    [][(layer = "chunked" /\ Yields) =>
         /\ RecordsOfFrame # {}
         /\ \A i \in RecordsOfFrame : FrameRecords[i].good]_vars

----------------------------------------------------------------------------
(* Claims about a file request without a share, checked under SpecFile *)

\* the holder's loop takes a GimmeFile off its stream
TakesGimmeFile == hpc = "loop" /\ r2h # <<>> /\ r2h' = Tail(r2h)

(* C39: a GimmeFile received from the peer while this side has shared no   *)
(* file does not crash or end the local peer session: the session stays    *)
(* in its loop and goes on with later packets and commands.                *)
C39_RequestWithoutShareSurvives ==
    [][(TakesGimmeFile /\ sent_invite = None) => hpc' = "loop"]_vars

----------------------------------------------------------------------------
(* Claims about the file request of an invite, checked under SpecInvite *)

(* C40: the file request triggered by a received file invite, at once for  *)
(* an image or by the user's accept command, is sent to the peer session   *)
(* of the invite's author, whichever friend is selected in the UI when     *)
(* the request is issued.                                                  *)
C40_RequestGoesToAuthor ==
    \A i \in 1..Len(file_requests) :
        file_requests[i].author # None =>
            file_requests[i].to = file_requests[i].author[1]

=============================================================================
